---- MODULE Spec2Model ----
(***************************************************************************)
(* Model of the job-hunter search core: src/lib/search.ts (adapters,       *)
(* dedupe, search orchestration with the cache lookup/store cycle) and its *)
(* CLI callers in src/job-hunt.ts.                                         *)
(*                                                                         *)
(* Strings the code computes on (URLs, queries, posting texts) are         *)
(* sequences of one-character strings; strings the code only compares or   *)
(* copies (board identifiers, the site option, source tags) are TLA+       *)
(* strings.                                                                *)
(***************************************************************************)
EXTENDS Integers, Sequences, FiniteSets, TLC

VARIABLES
    profile,    \* data/profile.json: the configured board identifiers
    now,        \* Date.now(), in milliseconds
    cache,      \* the cache store: <<query, params>> -> [value, storedAt]
    pc,         \* per call: "idle" | "usage" | "fanout" | "returned" | "rejected" | "exited"
    req,        \* per call: the arguments of search and the cache params
    js,         \* per call: the searchJobSpy promise (with its .catch handler)
    gh,         \* per call: the searchGreenhouse promise and its loop position
    lv,         \* per call: the searchLever promise and its loop position
    ret,        \* per call: the list search returned
    io,         \* per call: the cache reads/writes and the requests issued
    merged,     \* dedupe check: the list handed to dedupe (allResults)
    deduped,    \* dedupe check: what dedupe returned
    dpc,        \* dedupe check: "in" | "out" | "threw" | "off"
    kby,        \* cache-key check, per slot: who built the options
    kopts,      \* cache-key check, per slot: the options object
    kkey,       \* cache-key check, per slot: the cache key search computes
    world,      \* what each board identifier answers, where that is fixed in advance
    fin,        \* function check: the arguments of the call
    fout,       \* function check: what the call returned
    fpc,        \* function check: "in" | "out" | "off"
    store,      \* data/jobs.json: the tracked jobs, as load() reads them
    tout        \* tracker: what the last operation or command did and gave back

searchVars == <<profile, now, cache, pc, req, js, gh, lv, ret, io>>
dedupeVars == <<merged, deduped, dpc>>
keyVars == <<kby, kopts, kkey>>
fnVars == <<fin, fout, fpc>>
trackVars == <<store, tout>>
nonSearchVars == <<dedupeVars, keyVars, world, fnVars, trackVars>>
nonDedupeVars == <<searchVars, keyVars, world, fnVars, trackVars>>
nonKeyVars == <<searchVars, dedupeVars, world, fnVars, trackVars>>
nonFnVars == <<searchVars, dedupeVars, keyVars, world, trackVars>>
nonTrackVars == <<searchVars, dedupeVars, keyVars, world, fnVars>>
vars == <<searchVars, dedupeVars, keyVars, world, fnVars, trackVars>>

----------------------------------------------------------------------------
(* JavaScript values and string primitives                                 *)

\* The value `undefined` where the code expects a string (a record field the
\* source did not send). It is a one-element sequence whose element is no
\* character, so it differs from every string.
Undefined == <<"undefined">>

\* String.prototype.toLowerCase, on the characters the model uses.
LowerChar(ch) ==
    CASE ch = "A" -> "a"
      [] ch = "B" -> "b"
      [] ch = "E" -> "e"
      [] ch = "M" -> "m"
      [] ch = "N" -> "n"
      [] ch = "O" -> "o"
      [] ch = "R" -> "r"
      [] ch = "T" -> "t"
      [] ch = "X" -> "x"
      [] OTHER -> ch

toLowerCase(s) == [i \in 1..Len(s) |-> LowerChar(s[i])]

\* s.replace(/\?.*$/, ""): everything from the first "?" on is removed.
\* (Job URLs are single-line, so `.` matches every character after the "?".)
StripQuery(s) ==
    IF \E i \in 1..Len(s) : s[i] = "?"
    THEN LET first == CHOOSE i \in 1..Len(s) :
                          /\ s[i] = "?"
                          /\ \A j \in 1..(i-1) : s[j] # "?"
         IN SubSeq(s, 1, first - 1)
    ELSE s

\* s.replace(/\/+$/, ""): the maximal run of "/" at the end is removed.
RECURSIVE StripTrailingSlashes(_)
StripTrailingSlashes(s) ==
    IF Len(s) > 0 /\ s[Len(s)] = "/"
    THEN StripTrailingSlashes(SubSeq(s, 1, Len(s) - 1))
    ELSE s

\* A variant of NormalizeUrl without the case folding.
NormalizeUrlCaseSensitive(u) == StripTrailingSlashes(StripQuery(u))

\* The key dedupe computes for a job URL (search.ts line 160).
NormalizeUrl(u) == toLowerCase(StripTrailingSlashes(StripQuery(u)))

----------------------------------------------------------------------------
(* dedupe                                                                  *)

\* j.jobUrl.replace(...) throws a TypeError when jobUrl is undefined; filter
\* visits every element, so one such job makes the whole call throw.
dedupeThrows(jobs) == \E i \in 1..Len(jobs) : jobs[i].jobUrl = Undefined

\* A variant of dedupeFrom that returns each kept job under its key instead
\* of its URL.
RECURSIVE dedupeFromRewritingUrl(_, _, _)
dedupeFromRewritingUrl(jobs, i, seen) ==
    IF i > Len(jobs) THEN <<>>
    ELSE LET key == NormalizeUrl(jobs[i].jobUrl)
         IN IF key \in seen
            THEN dedupeFromRewritingUrl(jobs, i + 1, seen)
            ELSE <<[jobs[i] EXCEPT !.jobUrl = key]>>
                 \o dedupeFromRewritingUrl(jobs, i + 1, seen \cup {key})

RECURSIVE dedupeFrom(_, _, _)
dedupeFrom(jobs, i, seen) ==
    IF i > Len(jobs) THEN <<>>
    ELSE LET key == NormalizeUrl(jobs[i].jobUrl)
         IN IF key \in seen
            THEN dedupeFrom(jobs, i + 1, seen)
            ELSE <<jobs[i]>> \o dedupeFrom(jobs, i + 1, seen \cup {key})

dedupe(jobs) == dedupeFrom(jobs, 1, {})

----------------------------------------------------------------------------
(* More string primitives: the relevance filter of the two REST adapters   *)

IsSpace(ch) == ch = " "

\* s.split(/\s+/): the pieces between maximal runs of whitespace; a leading or
\* trailing run leaves an empty piece, and "" splits into one empty piece.
RECURSIVE SplitWs(_)
SplitWs(s) ==
    IF \A i \in 1..Len(s) : ~IsSpace(s[i])
    THEN <<s>>
    ELSE LET i == CHOOSE k \in 1..Len(s) :
                      /\ IsSpace(s[k])
                      /\ \A m \in 1..(k-1) : ~IsSpace(s[m])
             j == CHOOSE k \in i..Len(s) :
                      /\ \A m \in i..k : IsSpace(s[m])
                      /\ (k = Len(s) \/ ~IsSpace(s[k+1]))
         IN <<SubSeq(s, 1, i - 1)>> \o SplitWs(SubSeq(s, j + 1, Len(s)))

\* text.includes(w)
Includes(text, w) ==
    \E k \in 0..(Len(text) - Len(w)) : SubSeq(text, k + 1, k + Len(w)) = w

\* `${v}` in a template literal: undefined prints as the word "undefined".
Template(v) ==
    IF v = Undefined
    THEN <<"u", "n", "d", "e", "f", "i", "n", "e", "d">>
    ELSE v

\* v || "" for a string-or-undefined v.
OrEmpty(v) == IF v = Undefined THEN <<>> ELSE v

\* queryLower.split(/\s+/).some((w) => text.includes(w))
SomeWordIn(query, text) ==
    LET words == SplitWs(toLowerCase(query))
    IN \E n \in 1..Len(words) : Includes(text, words[n])

----------------------------------------------------------------------------
(* Option objects and JSON.stringify                                       *)

\* An options object is the sequence of its <<name, value>> properties in
\* insertion order. A value is a tagged sequence of strings.
Str(x) == <<"string", x>>
Num(x) == <<"number", x>>
Bool(x) == <<"boolean", x>>
Arr(xs) == <<"array">> \o xs
JsonNull == <<"null">>

HasProp(o, name) == \E i \in 1..Len(o) : o[i][1] = name

\* o.name: the property's value, undefined when the object has no such property.
Prop(o, name) ==
    IF HasProp(o, name)
    THEN o[CHOOSE i \in 1..Len(o) : o[i][1] = name][2]
    ELSE Undefined

\* JavaScript truthiness of an option value.
Truthy(v) ==
    /\ v # Undefined
    /\ v # JsonNull
    /\ v # Str("")
    /\ v # Bool("false")
    /\ v # Num("0")
    /\ v # Num("NaN")

ArrItems(v) == SubSeq(v, 2, Len(v))

RECURSIVE JSONstringifyFrom(_, _)
JSONstringifyFrom(o, i) ==
    IF i > Len(o) THEN <<>>
    ELSE IF o[i][2] = Undefined
         THEN JSONstringifyFrom(o, i + 1)
         ELSE <<  <<o[i][1], IF o[i][2] = Num("NaN") THEN JsonNull ELSE o[i][2]>>  >>
              \o JSONstringifyFrom(o, i + 1)

\* JSON.stringify(opts): the properties in insertion order, those whose value
\* is undefined left out, NaN written as null. The text is determined by, and
\* determines, this sequence, which stands for it.
JSONstringify(o) == JSONstringifyFrom(o, 1)

----------------------------------------------------------------------------
(* The CLI call sites                                                      *)

\* job-hunt.ts lines 117-127: the options literal of the search command.
CmdSearchOpts(site, location, remote, results, hoursOld, jobType, prof, proxy) ==
    << <<"site", site>>, <<"location", location>>, <<"remote", remote>>,
       <<"results", results>>, <<"hoursOld", hoursOld>>, <<"jobType", jobType>>,
       <<"greenhouseBoards", Arr(prof.greenhouseBoards)>>,
       <<"leverSites", Arr(prof.leverSites)>>, <<"proxy", proxy>> >>

\* job-hunt.ts lines 352-361: the options literal of the pipeline command.
CmdPipelineOpts(site, location, remote, results, jobType, prof, proxy) ==
    << <<"site", site>>, <<"location", location>>, <<"remote", remote>>,
       <<"results", results>>, <<"jobType", jobType>>,
       <<"greenhouseBoards", Arr(prof.greenhouseBoards)>>,
       <<"leverSites", Arr(prof.leverSites)>>, <<"proxy", proxy>> >>

----------------------------------------------------------------------------
(* The cache (lib/cache)                                                   *)

\* A variant of CACHE_TTL_MS that forgets the milliseconds.
CACHE_TTL_SECONDS == 30 * 60

CACHE_TTL_MS == 30 * 60 * 1000

CacheKey(q, p) == <<q, p>>

\* get(namespaceKey, paramsKey, ttlMs): the stored value while
\* now - storedAt <= ttlMs, absent otherwise.
cacheGet(q, p, ttlMs) ==
    IF /\ CacheKey(q, p) \in DOMAIN cache
       /\ now - cache[CacheKey(q, p)].storedAt <= ttlMs
    THEN [found |-> TRUE, value |-> cache[CacheKey(q, p)].value]
    ELSE [found |-> FALSE, value |-> <<>>]

\* set(namespaceKey, paramsKey, value): the store after the write.
cacheSet(q, p, v) ==
    [k \in DOMAIN cache \cup {CacheKey(q, p)} |->
        IF k = CacheKey(q, p)
        THEN [value |-> v, storedAt |-> now]
        ELSE cache[k]]

\* get when the store may be unreadable (a corrupt or unreadable entry): a
\* failed read is reported as absent.
cacheGetFallible(q, p, ttlMs, readOk) ==
    IF readOk THEN cacheGet(q, p, ttlMs) ELSE [found |-> FALSE, value |-> <<>>]

\* set when the store may be unwritable: a failed write leaves the store as
\* it was.
cacheSetFallible(q, p, v, writeOk) ==
    IF writeOk THEN cacheSet(q, p, v) ELSE cache

----------------------------------------------------------------------------
(* What the sources can answer                                             *)

Eng == <<"E", "n", "g">>
RN == <<"R", "N">>
Remote == <<"R", "e", "m", "o", "t", "e">>
Untitled == <<"Untitled">>
Unknown == <<"Unknown">>

UrlA == <<"a">>
UrlA2 == <<"A", "/", "?", "x">>
UrlB == <<"b">>
UrlC == <<"c">>
UrlD == <<"d">>

\* A record of scrapeJobs (JobData). isNull marks a null entry of the list.
JobData(t, c, l, u, s, d) ==
    [isNull |-> FALSE, title |-> t, company |-> c, location |-> l,
     jobUrl |-> u, site |-> s, datePosted |-> d]

NullJobData ==
    [isNull |-> TRUE, title |-> Undefined, company |-> "", location |-> Undefined,
     jobUrl |-> Undefined, site |-> "", datePosted |-> ""]

\* What scrapeJobs can do: resolve with a list, resolve with a value that is
\* no list, reject with an Error, reject with undefined (a bare reject()).
ScrapeOutcomes ==
    { [kind |-> "resolve",
       records |-> << JobData(Eng, "Acme", Remote, UrlA, "linkedin", "2024-01-01"),
                      JobData(Undefined, "", Undefined, UrlB, "", "") >>],
      [kind |-> "resolve",
       records |-> << JobData(Eng, "Acme", Remote, Undefined, "indeed", "") >>],
      [kind |-> "resolve", records |-> << NullJobData >>],
      [kind |-> "resolveNonList", records |-> <<>>],
      [kind |-> "rejectError", records |-> <<>>],
      [kind |-> "rejectUndefined", records |-> <<>>] }

\* A posting of the Greenhouse board API; location stands for location?.name.
GhPosting(t, l, u, d) ==
    [isNull |-> FALSE, title |-> t, location |-> l, absolute_url |-> u,
     updated_at |-> d]

NullGhPosting ==
    [isNull |-> TRUE, title |-> Undefined, location |-> Undefined,
     absolute_url |-> Undefined, updated_at |-> ""]

\* What one Greenhouse fetch can do: fail (network), answer a non-2xx status,
\* answer a body that is no JSON, answer JSON null, answer an object with no
\* or an empty jobs list, answer {jobs: [...]}.
GhResponses ==
    { [kind |-> "networkError", jobs |-> <<>>],
      [kind |-> "notOk", jobs |-> <<>>],
      [kind |-> "badJson", jobs |-> <<>>],
      [kind |-> "jsonNull", jobs |-> <<>>],
      [kind |-> "json", jobs |-> <<>>],
      [kind |-> "json",
       jobs |-> << GhPosting(Eng, Remote, UrlA2, "2024-02-02"),
                   GhPosting(RN, Undefined, UrlB, "") >>],
      [kind |-> "json", jobs |-> << GhPosting(Eng, Undefined, Undefined, "") >>],
      [kind |-> "json",
       jobs |-> << GhPosting(Eng, Remote, UrlA2, "2024-02-02"), NullGhPosting >>] }

\* A posting of the Lever postings API; createdAt is "" (absent), "valid" (a
\* millisecond epoch) or "invalid" (a value new Date() cannot read).
LvPosting(t, l, team, hosted, apply, created) ==
    [text |-> t, location |-> l, team |-> team,
     hostedUrl |-> hosted, applyUrl |-> apply, createdAt |-> created]

LvResponses ==
    { [kind |-> "networkError", postings |-> <<>>],
      [kind |-> "notOk", postings |-> <<>>],
      [kind |-> "badJson", postings |-> <<>>],
      [kind |-> "jsonNotArray", postings |-> <<>>],
      [kind |-> "json",
       postings |-> << LvPosting(Eng, Remote, Undefined, UrlC, UrlD, "valid"),
                       LvPosting(RN, Undefined, Undefined, UrlB, UrlB, "") >>],
      [kind |-> "json",
       postings |-> << LvPosting(RN, Undefined, Eng, Undefined, UrlD, "") >>],
      [kind |-> "json",
       postings |-> << LvPosting(Eng, Undefined, Undefined, Undefined, Undefined, "") >>],
      [kind |-> "json",
       postings |-> << LvPosting(Eng, Remote, Undefined, UrlC, UrlD, "valid"),
                       LvPosting(Eng, Remote, Undefined, UrlB, UrlB, "invalid") >>] }

----------------------------------------------------------------------------
(* The adapters' mapping to JobResult                                      *)

JobResult(t, c, l, u, s, d) ==
    [title |-> t, company |-> c, location |-> l, jobUrl |-> u, source |-> s,
     datePosted |-> d]

\* search.ts lines 52-62, for one record.
MapJobData(r) ==
    JobResult(IF OrEmpty(r.title) = <<>> THEN Untitled ELSE r.title,
              IF r.company = "" THEN "Unknown" ELSE r.company,
              IF OrEmpty(r.location) = <<>> THEN Unknown ELSE r.location,
              r.jobUrl,
              IF r.site = "" THEN "jobspy" ELSE r.site,
              IF r.datePosted = "" THEN "null" ELSE r.datePosted)

\* The siteName searchJobSpy passes to scrapeJobs (search.ts lines 28-38).
SiteNameFor(o) ==
    IF Truthy(Prop(o, "site")) /\ Prop(o, "site") \in {Str("linkedin"), Str("indeed")}
    THEN <<Prop(o, "site")[2]>>
    ELSE <<"linkedin", "indeed">>

\* searchJobSpy with its .catch handler (search.ts lines 40-62, 186-189): how
\* the promise search waits on settles. A rejection of scrapeJobs, or an
\* exception of results.map (results no list, or a null entry), reaches the
\* handler; the handler reads e.message, which throws when e is undefined.
\* fault tells what went wrong inside the adapter: "none", "unreachable" (the
\* scraper rejected) or "malformed" (its answer could not be mapped).
JobSpySettles(outcome) ==
    CASE outcome.kind = "rejectUndefined" ->
            [st |-> "rejected", jobs |-> <<>>, fault |-> "unreachable"]
      [] outcome.kind = "rejectError" ->
            [st |-> "fulfilled", jobs |-> <<>>, fault |-> "unreachable"]
      [] outcome.kind = "resolveNonList" ->
            [st |-> "fulfilled", jobs |-> <<>>, fault |-> "malformed"]
      [] OTHER ->
            IF \E i \in 1..Len(outcome.records) : outcome.records[i].isNull
            THEN [st |-> "fulfilled", jobs |-> <<>>, fault |-> "malformed"]
            ELSE [st |-> "fulfilled",
                  jobs |-> [i \in 1..Len(outcome.records) |->
                               MapJobData(outcome.records[i])],
                  fault |-> "none"]

\* search.ts lines 83-86, for one posting (null entries excluded by the caller).
GhMatches(query, j) ==
    SomeWordIn(query, toLowerCase(Template(j.title) \o <<" ">> \o OrEmpty(j.location)))

\* A variant of MapGhPosting that writes the board to the source field.
MapGhPostingSourceIsBoard(board, j) ==
    JobResult(j.title, board,
              IF OrEmpty(j.location) = <<>> THEN Unknown ELSE j.location,
              j.absolute_url, board,
              IF j.updated_at = "" THEN "null" ELSE j.updated_at)

\* search.ts lines 89-99.
MapGhPosting(board, j) ==
    JobResult(j.title, board,
              IF OrEmpty(j.location) = <<>> THEN Unknown ELSE j.location,
              j.absolute_url, "greenhouse",
              IF j.updated_at = "" THEN "null" ELSE j.updated_at)

\* One iteration of the loop of searchGreenhouse (search.ts lines 75-103):
\* the jobs it pushes and how the identifier went: "none" (handled to the
\* end), "unreachable" (the fetch failed, or a non-2xx status: continue) or
\* "malformed" (an exception of res.json(), of the filter or of the mapping,
\* caught by the catch block). The filter runs over the whole list before
\* anything is pushed.
GhIteration(query, board, resp) ==
    IF resp.kind \in {"networkError", "notOk"}
    THEN [pushed |-> <<>>, fault |-> "unreachable"]
    ELSE IF resp.kind \in {"badJson", "jsonNull"}
            \/ \E i \in 1..Len(resp.jobs) : resp.jobs[i].isNull
         THEN [pushed |-> <<>>, fault |-> "malformed"]
         ELSE LET jobs == SelectSeq(resp.jobs, LAMBDA j : GhMatches(query, j))
              IN [pushed |-> [i \in 1..Len(jobs) |-> MapGhPosting(board, jobs[i])],
                  fault |-> "none"]

\* search.ts lines 127-130, for one posting.
LvMatches(query, p) ==
    SomeWordIn(query, toLowerCase(Template(p.text) \o <<" ">> \o OrEmpty(p.location)
                                  \o <<" ">> \o OrEmpty(p.team)))

\* new Date(p.createdAt).toISOString() throws a RangeError on an invalid date.
LvDateThrows(p) == p.createdAt = "invalid"

\* search.ts lines 133-144.
MapLvPosting(site, p) ==
    JobResult(p.text, site,
              IF OrEmpty(p.location) = <<>> THEN Unknown ELSE p.location,
              IF OrEmpty(p.hostedUrl) # <<>> THEN p.hostedUrl ELSE p.applyUrl,
              "lever",
              IF p.createdAt = "" THEN "null" ELSE "2024-03-03T00:00:00.000Z")

\* One iteration of the loop of searchLever (search.ts lines 119-148). The
\* push loop stops at the first posting whose date conversion throws; what
\* it pushed before stays in results.
LvIteration(query, site, resp) ==
    IF resp.kind \in {"networkError", "notOk"}
    THEN [pushed |-> <<>>, fault |-> "unreachable"]
    ELSE IF resp.kind \in {"badJson", "jsonNotArray"}
    THEN [pushed |-> <<>>, fault |-> "malformed"]
    ELSE LET filtered == SelectSeq(resp.postings, LAMBDA p : LvMatches(query, p))
             bad == { i \in 1..Len(filtered) : LvDateThrows(filtered[i]) }
             upTo == IF bad = {}
                     THEN Len(filtered)
                     ELSE (CHOOSE i \in bad : \A k \in bad : i <= k) - 1
         IN [pushed |-> [i \in 1..upTo |-> MapLvPosting(site, filtered[i])],
             fault |-> IF bad = {} THEN "none" ELSE "malformed"]

----------------------------------------------------------------------------
(* search: the state of one call                                           *)

\* The two processes that run a search command.
Calls == {"c1", "c2"}

NoReq == [query |-> <<>>, opts |-> <<>>, params |-> <<>>]

\* An adapter promise that was not started.
NoPromise == [st |-> "none", jobs |-> <<>>, fault |-> "none"]

\* The loop of a REST adapter that was not started. ids is the identifier
\* list, idx the position whose fetch is in flight, jobs the results array,
\* faults how each identifier handled so far went.
NoLoop == [st |-> "none", ids |-> <<>>, idx |-> 0, jobs |-> <<>>, faults |-> <<>>]

NoIo ==
    [reads |-> 0, writes |-> 0, hit |-> FALSE,
     readFailed |-> FALSE, writeFailed |-> FALSE,
     scrapes |-> <<>>, ghFetches |-> <<>>, lvFetches |-> <<>>,
     settled |-> <<>>]

EmptyCache == [k \in {} |-> 0]

\* data/profile.json, as loadProfile reads it: no boards (also: no profile
\* file), or one Greenhouse board and one Lever site.
Profiles ==
    { [greenhouseBoards |-> <<>>, leverSites |-> <<>>],
      [greenhouseBoards |-> <<"acme">>, leverSites |-> <<"initech">>] }

\* --site: not given, given empty, a scraped board, a board of a REST adapter.
Sites == { Undefined, Str(""), Str("linkedin"), Str("indeed"), Str("greenhouse") }

\* The query words joined: none (empty query), or "eng".
Queries == { <<>>, <<"e", "n", "g">> }

TickMs == 1800000
MaxTicks == 2

\* No search is running and nothing is cached.
SearchIdle ==
    /\ now = 0
    /\ cache = EmptyCache
    /\ pc = [c \in Calls |-> "idle"]
    /\ req = [c \in Calls |-> NoReq]
    /\ js = [c \in Calls |-> NoPromise]
    /\ gh = [c \in Calls |-> NoLoop]
    /\ lv = [c \in Calls |-> NoLoop]
    /\ ret = [c \in Calls |-> <<>>]
    /\ io = [c \in Calls |-> NoIo]

\* The variables of the checks of the pure functions, in the specifications
\* that do not use them.
DedupeOff ==
    /\ merged = <<>>
    /\ deduped = <<>>
    /\ dpc = "off"

KeySlots == {"k1", "k2"}

KeyOff ==
    /\ kby = [s \in KeySlots |-> "none"]
    /\ kopts = [s \in KeySlots |-> <<>>]
    /\ kkey = [s \in KeySlots |-> <<>>]

\* The sources answer as they like, request by request.
NoWorld == [gh |-> <<>>, lv |-> <<>>]

FnOff ==
    /\ fin = <<>>
    /\ fout = <<>>
    /\ fpc = "off"

\* No tracker operation has run; data/jobs.json does not exist.
NoOutcome ==
    [op |-> "none", id |-> "", arg |-> "", before |-> <<>>, saved |-> FALSE,
     result |-> [null |-> TRUE], exit |-> 0]

TrackOff ==
    /\ store = <<>>
    /\ tout = NoOutcome

SearchInit ==
    /\ profile \in Profiles
    /\ SearchIdle
    /\ world = NoWorld
    /\ FnOff
    /\ TrackOff
    /\ DedupeOff
    /\ KeyOff

----------------------------------------------------------------------------
(* search: the operations                                                  *)

\* A variant of StartsJobSpy that forgets the case of no site option.
StartsJobSpyListedOnly(o) == Prop(o, "site") \in {Str("linkedin"), Str("indeed")}

\* search.ts line 184.
StartsJobSpy(o) ==
    \/ ~Truthy(Prop(o, "site"))
    \/ Prop(o, "site") \in {Str("linkedin"), Str("indeed")}

\* search.ts line 193.
StartsGreenhouse(o) ==
    /\ Truthy(Prop(o, "greenhouseBoards"))
    /\ Len(ArrItems(Prop(o, "greenhouseBoards"))) > 0

\* search.ts line 197.
StartsLever(o) ==
    /\ Truthy(Prop(o, "leverSites"))
    /\ Len(ArrItems(Prop(o, "leverSites"))) > 0

\* A variant of IsHit that tests cached !== null: an absent entry
\* (undefined) passes it.
IsHitUnlessNull(cached) == TRUE

\* A variant of IsHit that takes a cached empty list for a miss.
IsHitNonEmpty(cached) == cached.found /\ cached.value # <<>>

\* search.ts line 176: if (cached). An array is truthy, the empty one too.
IsHit(cached) == cached.found

\* A variant of StoredValue that stores the merged list as it is.
StoredValueUndeduped(allResults) == allResults

\* search.ts line 204: the value handed to cache.set.
StoredValue(allResults) == dedupe(allResults)

\* search.ts line 205: the value search returns.
ReturnedValue(allResults) == dedupe(allResults)

\* The argument searchJobSpy passes to scrapeJobs (search.ts lines 40-50).
ScrapeRequest(q, o) ==
    [siteName |-> SiteNameFor(o),
     searchTerm |-> q,
     location |-> Prop(o, "location"),
     isRemote |-> Prop(o, "remote"),
     resultsWanted |-> IF Truthy(Prop(o, "results")) THEN Prop(o, "results")
                       ELSE Num("15"),
     jobType |-> Prop(o, "jobType"),
     hoursOld |-> Prop(o, "hoursOld"),
     descriptionFormat |-> Str("markdown"),
     linkedinFetchDescription |-> Bool("true")]

\* A REST adapter just called: its first fetch is in flight.
StartLoop(ids) ==
    [st |-> "pending", ids |-> ids, idx |-> 1, jobs |-> <<>>, faults |-> <<>>]

\* search(query, opts) up to its await (search.ts lines 170-201): the cache
\* lookup, then on a hit the return of the cached list, on a miss the calls of
\* the adapters, each of which runs up to its first request. readOk: whether
\* the cache could read its store.
SearchReading(c, q, o, readOk) ==
    LET p == JSONstringify(o)
        cached == cacheGetFallible(q, p, CACHE_TTL_MS, readOk)
        boards == ArrItems(Prop(o, "greenhouseBoards"))
        sites == ArrItems(Prop(o, "leverSites"))
    IN /\ req' = [req EXCEPT ![c] = [query |-> q, opts |-> o, params |-> p]]
       /\ IF IsHit(cached)
          THEN /\ pc' = [pc EXCEPT ![c] = "returned"]
               /\ ret' = [ret EXCEPT ![c] = cached.value]
               /\ io' = [io EXCEPT ![c].reads = @ + 1, ![c].hit = TRUE,
                                   ![c].readFailed = ~readOk]
               /\ UNCHANGED <<js, gh, lv>>
          ELSE /\ pc' = [pc EXCEPT ![c] = "fanout"]
               /\ js' = [js EXCEPT ![c] =
                            IF StartsJobSpy(o)
                            THEN [st |-> "pending", jobs |-> <<>>, fault |-> "none"]
                            ELSE NoPromise]
               /\ gh' = [gh EXCEPT ![c] =
                            IF StartsGreenhouse(o) THEN StartLoop(boards) ELSE NoLoop]
               /\ lv' = [lv EXCEPT ![c] =
                            IF StartsLever(o) THEN StartLoop(sites) ELSE NoLoop]
               /\ io' = [io EXCEPT
                            ![c].reads = @ + 1,
                            ![c].readFailed = ~readOk,
                            ![c].scrapes =
                                IF StartsJobSpy(o)
                                THEN <<ScrapeRequest(q, o)>>
                                ELSE <<>>,
                            ![c].ghFetches =
                                IF StartsGreenhouse(o) THEN <<boards[1]>> ELSE <<>>,
                            ![c].lvFetches =
                                IF StartsLever(o) THEN <<sites[1]>> ELSE <<>>]
               /\ UNCHANGED ret

\* search(query, opts) with a cache that reads its store.
Search(c, q, o) == SearchReading(c, q, o, TRUE)

\* proxyFlag || process.env.JOB_HUNTER_PROXY || profile?.preferences?.proxies?.[0]
\* (job-hunt.ts line 105): the first of the three that is truthy, else the
\* third.
ChosenProxy(proxyFlag, envProxy, prof) ==
    IF Truthy(proxyFlag) THEN proxyFlag
    ELSE IF Truthy(envProxy) THEN envProxy
    ELSE IF "proxies" \in DOMAIN prof /\ prof.proxies # <<>> THEN prof.proxies[1]
    ELSE Undefined

\* cmdSearch (job-hunt.ts lines 89-127): an empty query prints the usage and
\* exits with status 1; otherwise search is called with the options literal.
\* proxyFlag: the value of --proxy; envProxy: JOB_HUNTER_PROXY.
cmdSearchGiven(c, site, q, proxyFlag, envProxy, readOk) ==
    /\ pc[c] = "idle"
    /\ IF q = <<>>
       THEN /\ pc' = [pc EXCEPT ![c] = "usage"]
            /\ UNCHANGED <<req, js, gh, lv, ret, io>>
       ELSE SearchReading(c, q,
                          CmdSearchOpts(site, Undefined, Bool("false"), Num("15"),
                                        Undefined, Undefined, profile,
                                        ChosenProxy(proxyFlag, envProxy, profile)),
                          readOk)
    /\ UNCHANGED <<profile, now, cache, nonSearchVars>>

\* cmdSearch with no --proxy and no JOB_HUNTER_PROXY.
cmdSearchReading(c, site, q, readOk) ==
    cmdSearchGiven(c, site, q, Undefined, Undefined, readOk)

\* cmdSearch with a cache that reads its store.
cmdSearch(c, site, q) == cmdSearchReading(c, site, q, TRUE)

\* scrapeJobs settles (search.ts lines 40-62 and the handler of lines 186-189).
\* settled: the adapters of the call that have settled, in the order in which
\* they did, as far as it is kept.
ScrapeSettlesAs(c, outcome, settled) ==
    /\ pc[c] \in {"fanout", "rejected"}
    /\ js[c].st = "pending"
    /\ js' = [js EXCEPT ![c] = JobSpySettles(outcome)]
    /\ io' = [io EXCEPT ![c].settled = settled]
    /\ UNCHANGED <<profile, now, cache, pc, req, gh, lv, ret, nonSearchVars>>

\* scrapeJobs settles, the order of settling not being kept.
ScrapeSettles(c, outcome) == ScrapeSettlesAs(c, outcome, io[c].settled)

\* A variant of LoopAfter whose catch block gives up what was collected: a
\* failed identifier empties the results array.
LoopAfterDroppingOnFault(loop, it) ==
    [st |-> IF loop.idx < Len(loop.ids) THEN "pending" ELSE "fulfilled",
     ids |-> loop.ids,
     idx |-> IF loop.idx < Len(loop.ids) THEN loop.idx + 1 ELSE loop.idx,
     jobs |-> IF it.fault # "none" THEN <<>> ELSE loop.jobs \o it.pushed,
     faults |-> Append(loop.faults, it.fault)]

\* A variant of LoopAfter that fetches an identifier a second time when its
\* first handling failed.
LoopAfterRetrying(loop, it) ==
    LET retry == it.fault # "none" /\ Len(loop.faults) < loop.idx
    IN [st |-> IF retry \/ loop.idx < Len(loop.ids) THEN "pending" ELSE "fulfilled",
        ids |-> loop.ids,
        idx |-> IF ~retry /\ loop.idx < Len(loop.ids) THEN loop.idx + 1 ELSE loop.idx,
        jobs |-> loop.jobs \o it.pushed,
        faults |-> Append(loop.faults, it.fault)]

\* The loop after one more iteration: the results array grown by what the
\* iteration pushed, then the next fetch issued or the adapter returned.
LoopAfter(loop, it) ==
    [st |-> IF loop.idx < Len(loop.ids) THEN "pending" ELSE "fulfilled",
     ids |-> loop.ids,
     idx |-> IF loop.idx < Len(loop.ids) THEN loop.idx + 1 ELSE loop.idx,
     jobs |-> loop.jobs \o it.pushed,
     faults |-> Append(loop.faults, it.fault)]

\* The fetch of the current Greenhouse board settles (search.ts lines 74-106).
\* settled: as for ScrapeSettlesAs, taken when the adapter returns.
GhFetchSettlesAs(c, resp, settled) ==
    /\ pc[c] \in {"fanout", "rejected"}
    /\ gh[c].st = "pending"
    /\ LET board == gh[c].ids[gh[c].idx]
           next == LoopAfter(gh[c], GhIteration(req[c].query, board, resp))
       IN /\ gh' = [gh EXCEPT ![c] = next]
          /\ io' = [io EXCEPT
                       ![c].ghFetches =
                           IF next.st = "pending" THEN Append(@, next.ids[next.idx]) ELSE @,
                       ![c].settled = IF next.st = "pending" THEN @ ELSE settled]
    /\ UNCHANGED <<profile, now, cache, pc, req, js, lv, ret, nonSearchVars>>

GhFetchSettles(c, resp) == GhFetchSettlesAs(c, resp, io[c].settled)

\* The fetch of the current Lever site settles (search.ts lines 118-151).
\* settled: as for ScrapeSettlesAs, taken when the adapter returns.
LvFetchSettlesAs(c, resp, settled) ==
    /\ pc[c] \in {"fanout", "rejected"}
    /\ lv[c].st = "pending"
    /\ LET site == lv[c].ids[lv[c].idx]
           next == LoopAfter(lv[c], LvIteration(req[c].query, site, resp))
       IN /\ lv' = [lv EXCEPT ![c] = next]
          /\ io' = [io EXCEPT
                       ![c].lvFetches =
                           IF next.st = "pending" THEN Append(@, next.ids[next.idx]) ELSE @,
                       ![c].settled = IF next.st = "pending" THEN @ ELSE settled]
    /\ UNCHANGED <<profile, now, cache, pc, req, js, gh, ret, nonSearchVars>>

LvFetchSettles(c, resp) == LvFetchSettlesAs(c, resp, io[c].settled)

\* A variant of SearchJoinsWriting that concatenates the lists of the
\* adapters in the order in which the adapters settled.
RECURSIVE InSettledOrder(_, _)
InSettledOrder(c, i) ==
    IF i > Len(io[c].settled) THEN <<>>
    ELSE (CASE io[c].settled[i] = "jobspy" -> js[c].jobs
            [] io[c].settled[i] = "greenhouse" -> gh[c].jobs
            [] io[c].settled[i] = "lever" -> lv[c].jobs)
         \o InSettledOrder(c, i + 1)

SearchJoinsWritingInSettledOrder(c, writeOk) ==
    /\ pc[c] = "fanout"
    /\ js[c].st \in {"none", "fulfilled"}
    /\ gh[c].st \in {"none", "fulfilled"}
    /\ lv[c].st \in {"none", "fulfilled"}
    /\ LET allResults == InSettledOrder(c, 1)
       IN IF dedupeThrows(allResults)
          THEN /\ pc' = [pc EXCEPT ![c] = "rejected"]
               /\ UNCHANGED <<cache, ret, io>>
          ELSE /\ cache' = cacheSetFallible(req[c].query, req[c].params,
                                             dedupe(allResults), writeOk)
               /\ ret' = [ret EXCEPT ![c] = dedupe(allResults)]
               /\ io' = [io EXCEPT ![c].writes = @ + 1, ![c].writeFailed = ~writeOk]
               /\ pc' = [pc EXCEPT ![c] = "returned"]
    /\ UNCHANGED <<profile, now, req, js, gh, lv, nonSearchVars>>

\* Promise.all fulfils (search.ts lines 201-205): every promise of the list
\* is fulfilled; the lists are concatenated in the order of the list, then
\* deduplicated, stored and returned. An exception of dedupe rejects search.
\* writeOk: whether the cache could write its store.
SearchJoinsWriting(c, writeOk) ==
    /\ pc[c] = "fanout"
    /\ js[c].st \in {"none", "fulfilled"}
    /\ gh[c].st \in {"none", "fulfilled"}
    /\ lv[c].st \in {"none", "fulfilled"}
    /\ LET allResults == js[c].jobs \o gh[c].jobs \o lv[c].jobs
       IN IF dedupeThrows(allResults)
          THEN /\ pc' = [pc EXCEPT ![c] = "rejected"]
               /\ UNCHANGED <<cache, ret, io>>
          ELSE /\ cache' = cacheSetFallible(req[c].query, req[c].params,
                                             StoredValue(allResults), writeOk)
               /\ ret' = [ret EXCEPT ![c] = ReturnedValue(allResults)]
               /\ io' = [io EXCEPT ![c].writes = @ + 1, ![c].writeFailed = ~writeOk]
               /\ pc' = [pc EXCEPT ![c] = "returned"]
    /\ UNCHANGED <<profile, now, req, js, gh, lv, nonSearchVars>>

\* Promise.all fulfils, with a cache that writes its store.
SearchJoins(c) == SearchJoinsWriting(c, TRUE)

\* Promise.all rejects as soon as one promise of the list rejects (search.ts
\* line 201): search rejects; the other adapters keep running.
SearchRejects(c) ==
    /\ pc[c] = "fanout"
    /\ js[c].st = "rejected"
    /\ pc' = [pc EXCEPT ![c] = "rejected"]
    /\ UNCHANGED <<profile, now, cache, req, js, gh, lv, ret, io, nonSearchVars>>

\* The process of the command ends (job-hunt.ts lines 129-162, 620-623): its
\* memory is gone; the cache stays.
ProcessExits(c) ==
    /\ pc[c] \in {"returned", "rejected"}
    /\ pc' = [pc EXCEPT ![c] = "exited"]
    /\ req' = [req EXCEPT ![c] = NoReq]
    /\ js' = [js EXCEPT ![c] = NoPromise]
    /\ gh' = [gh EXCEPT ![c] = NoLoop]
    /\ lv' = [lv EXCEPT ![c] = NoLoop]
    /\ ret' = [ret EXCEPT ![c] = <<>>]
    /\ io' = [io EXCEPT ![c] = NoIo]
    /\ UNCHANGED <<profile, now, cache, nonSearchVars>>

\* Time passes.
Tick ==
    /\ now < MaxTicks * TickMs
    /\ now' = now + TickMs
    /\ UNCHANGED <<profile, cache, pc, req, js, gh, lv, ret, io, nonSearchVars>>

\* Commands run one after the other: a process starts when the one before
\* it has ended.
Turn(c) == c = "c1" \/ pc["c1"] \in {"usage", "exited"}

Next ==
    \/ \E c \in Calls, site \in Sites, q \in Queries : Turn(c) /\ cmdSearch(c, site, q)
    \/ \E c \in Calls, outcome \in ScrapeOutcomes : ScrapeSettles(c, outcome)
    \/ \E c \in Calls, resp \in GhResponses : GhFetchSettles(c, resp)
    \/ \E c \in Calls, resp \in LvResponses : LvFetchSettles(c, resp)
    \/ \E c \in Calls : SearchJoins(c)
    \/ \E c \in Calls : SearchRejects(c)
    \/ \E c \in Calls : ProcessExits(c)
    \/ Tick

Spec == SearchInit /\ [][Next]_vars

\* Two processes at once: both commands may be started at any time.
RaceProfiles == { [greenhouseBoards |-> <<"acme">>, leverSites |-> <<>>] }

RaceInit ==
    /\ profile \in RaceProfiles
    /\ SearchIdle
    /\ world = NoWorld
    /\ FnOff
    /\ TrackOff
    /\ DedupeOff
    /\ KeyOff

NextRace ==
    \/ \E c \in Calls, site \in Sites, q \in Queries : cmdSearch(c, site, q)
    \/ \E c \in Calls, outcome \in ScrapeOutcomes : ScrapeSettles(c, outcome)
    \/ \E c \in Calls, resp \in GhResponses : GhFetchSettles(c, resp)
    \/ \E c \in Calls : SearchJoins(c)
    \/ \E c \in Calls : SearchRejects(c)
    \/ \E c \in Calls : ProcessExits(c)
    \/ Tick

SpecRace == RaceInit /\ [][NextRace]_vars

\* The cache may fail: any read and any write of a call may find the store
\* unreadable or unwritable.
NextCacheFault ==
    \/ \E c \in Calls, site \in Sites, q \in Queries, readOk \in BOOLEAN :
          Turn(c) /\ cmdSearchReading(c, site, q, readOk)
    \/ \E c \in Calls, outcome \in ScrapeOutcomes : ScrapeSettles(c, outcome)
    \/ \E c \in Calls, resp \in GhResponses : GhFetchSettles(c, resp)
    \/ \E c \in Calls, writeOk \in BOOLEAN : SearchJoinsWriting(c, writeOk)
    \/ \E c \in Calls : SearchRejects(c)
    \/ \E c \in Calls : ProcessExits(c)
    \/ Tick

SpecCacheFault == RaceInit /\ [][NextCacheFault]_vars

\* The proxy settings: --proxy not given, given empty, given; the
\* environment variable not set, set; the profile with no proxy list, an
\* empty one, two proxies.
ProxyFlags == { Undefined, Str(""), Str("flag:8080") }
EnvProxies == { Undefined, Str("env:8080") }

ProxyProfiles ==
    { [greenhouseBoards |-> <<"acme">>, leverSites |-> <<>>],
      [greenhouseBoards |-> <<"acme">>, leverSites |-> <<>>, proxies |-> <<>>],
      [greenhouseBoards |-> <<"acme">>, leverSites |-> <<>>,
       proxies |-> <<Str("p1:8080"), Str("p2:8080")>>] }

\* The command line and the environment of the process are fixed when it
\* starts.
ProxyInit ==
    /\ profile \in ProxyProfiles
    /\ fin \in [proxyFlag : ProxyFlags, envProxy : EnvProxies]
    /\ fout = <<>>
    /\ fpc = "off"
    /\ SearchIdle
    /\ world = NoWorld
    /\ TrackOff
    /\ DedupeOff
    /\ KeyOff

ProxySites == { Undefined, Str("linkedin"), Str("greenhouse") }

ProxyNext ==
    \/ \E site \in ProxySites, q \in Queries :
          cmdSearchGiven("c1", site, q, fin.proxyFlag, fin.envProxy, TRUE)
    \/ \E outcome \in ScrapeOutcomes : ScrapeSettles("c1", outcome)
    \/ \E resp \in GhResponses : GhFetchSettles("c1", resp)
    \/ SearchJoins("c1")
    \/ SearchRejects("c1")

SpecProxy == ProxyInit /\ [][ProxyNext]_vars

\* The order in which the adapters of a search settle, against the order of
\* its list: two Greenhouse boards and a Lever site whose answers are fixed
\* in advance, the scraper as it likes. One posting of the Lever site has
\* the URL of a posting of the scraper and of the boards, written otherwise.
OrderProfile ==
    [greenhouseBoards |-> <<"acme", "globex">>, leverSites |-> <<"initech">>]

OrderGhAnswers ==
    { [kind |-> "networkError", jobs |-> <<>>],
      [kind |-> "json", jobs |-> <<>>],
      [kind |-> "json",
       jobs |-> << GhPosting(Eng, Remote, UrlA2, "2024-02-02"),
                   GhPosting(RN, Undefined, UrlB, "") >>] }

OrderLvAnswers ==
    { [kind |-> "notOk", postings |-> <<>>],
      [kind |-> "json",
       postings |-> << LvPosting(Eng, Remote, Undefined, UrlC, UrlD, "valid"),
                       LvPosting(RN, Undefined, Undefined, UrlB, UrlB, "") >>],
      [kind |-> "json",
       postings |-> << LvPosting(Eng, Remote, Undefined, <<"a", "/">>, UrlD, "valid"),
                       LvPosting(Eng, Remote, Undefined, UrlC, UrlD, "") >>] }

OrderInit ==
    /\ profile = OrderProfile
    /\ world \in [gh : [1..2 -> OrderGhAnswers], lv : [1..1 -> OrderLvAnswers]]
    /\ SearchIdle
    /\ DedupeOff
    /\ KeyOff
    /\ FnOff
    /\ TrackOff

OrderNext ==
    \/ cmdSearch("c1", Undefined, Eng)
    \/ \E outcome \in ScrapeOutcomes :
          ScrapeSettlesAs("c1", outcome, Append(io["c1"].settled, "jobspy"))
    \/ /\ gh["c1"].st = "pending"
       /\ GhFetchSettlesAs("c1", world.gh[gh["c1"].idx],
                           Append(io["c1"].settled, "greenhouse"))
    \/ /\ lv["c1"].st = "pending"
       /\ LvFetchSettlesAs("c1", world.lv[lv["c1"].idx],
                           Append(io["c1"].settled, "lever"))
    \/ SearchJoins("c1")
    \/ SearchRejects("c1")

SpecOrder == OrderInit /\ [][OrderNext]_vars

\* The same search where every request that is in flight is answered in the
\* end and the event loop resumes search once Promise.all has settled: a
\* step that can be taken is taken.
SpecLive == OrderInit /\ [][OrderNext]_vars /\ WF_vars(OrderNext)

----------------------------------------------------------------------------
(* dedupe on its own                                                       *)

\* Sample job URLs: the same posting written with another case, with trailing
\* slashes, with a query string; another posting; the empty string; undefined.
UrlSamples ==
    { <<"a">>, <<"A", "/">>, <<"a", "/", "/">>, <<"a", "?", "x">>,
      <<"A", "/", "?", "b", "/">>, <<"b">>, <<"b", "?", "a">>, <<>>, Undefined }

SourceTags == {"greenhouse", "lever"}

SampleJobs == [jobUrl : UrlSamples, source : SourceTags]

MaxMerged == 3

SeqsUpTo(S, n) == UNION { [1..k -> S] : k \in 0..n }

\* The input of one dedupe call: any list of up to MaxMerged sample jobs.
DedupeInit ==
    /\ merged \in SeqsUpTo(SampleJobs, MaxMerged)
    /\ deduped = <<>>
    /\ dpc = "in"
    /\ profile = [greenhouseBoards |-> <<>>, leverSites |-> <<>>]
    /\ SearchIdle
    /\ world = NoWorld
    /\ FnOff
    /\ TrackOff
    /\ KeyOff

\* search.ts line 202: const deduped = dedupe(allResults).
DedupeCall ==
    /\ dpc = "in"
    /\ IF dedupeThrows(merged)
       THEN /\ dpc' = "threw"
            /\ UNCHANGED deduped
       ELSE /\ dpc' = "out"
            /\ deduped' = dedupe(merged)
    /\ UNCHANGED <<merged, nonDedupeVars>>

DedupeNext == DedupeCall

SpecDedupe == DedupeInit /\ [][DedupeNext]_vars

\* dedupe applied to the list an earlier call of it returned: what a search
\* would compute from a list that is already deduplicated.
DedupeAgain ==
    /\ dpc = "out"
    /\ dpc' = "again"
    /\ deduped' = dedupe(deduped)
    /\ UNCHANGED <<merged, nonDedupeVars>>

DedupeTwiceNext == DedupeCall \/ DedupeAgain

SpecDedupeTwice == DedupeInit /\ [][DedupeTwiceNext]_vars

----------------------------------------------------------------------------
(* The cache key of search, for options built at different places          *)

GivenSites == { Undefined, Str("linkedin") }
GivenLocations == { Undefined, Str("NYC") }
GivenRemote == { Bool("false"), Bool("true") }
\* parseInt of --results: a number, or NaN for a value that is no number.
GivenResults == { Num("10"), Num("15"), Num("NaN") }
GivenHoursOld == { Undefined, Num("24") }

KeyProfile == [greenhouseBoards |-> <<"acme">>, leverSites |-> <<>>]

KeyQuery == <<"e", "n", "g">>

\* Option objects of other callers of the exported search: the same
\* properties written in another order, and a shorter object.
CallerOpts ==
    { << <<"results", Num("15")>>, <<"site", Str("linkedin")>> >>,
      << <<"site", Str("linkedin")>>, <<"results", Num("15")>> >>,
      << <<"site", Str("linkedin")>> >>,
      << <<"proxy", Undefined>>, <<"leverSites", Arr(<<>>)>>,
         <<"greenhouseBoards", Arr(<<"acme">>)>>, <<"jobType", Undefined>>,
         <<"results", Num("10")>>, <<"remote", Bool("false")>>,
         <<"location", Undefined>>, <<"site", Undefined>> >> }

KeyInit ==
    /\ kby = [s \in KeySlots |-> "none"]
    /\ kopts = [s \in KeySlots |-> <<>>]
    /\ kkey = [s \in KeySlots |-> <<>>]
    /\ profile = KeyProfile
    /\ SearchIdle
    /\ world = NoWorld
    /\ FnOff
    /\ TrackOff
    /\ DedupeOff

\* search.ts lines 174-175: the key under which search looks the cache up.
SearchKey(q, o) == CacheKey(q, JSONstringify(o))

KeyBuilt(s, by, o) ==
    /\ kby[s] = "none"
    /\ kby' = [kby EXCEPT ![s] = by]
    /\ kopts' = [kopts EXCEPT ![s] = o]
    /\ kkey' = [kkey EXCEPT ![s] = SearchKey(KeyQuery, o)]
    /\ UNCHANGED nonKeyVars

\* The search command calls search (job-hunt.ts lines 89-127).
KeyOfCmdSearch(s, site, location, remote, results, hoursOld) ==
    KeyBuilt(s, "cmdSearch",
             CmdSearchOpts(site, location, remote, results, hoursOld, Undefined,
                           profile, Undefined))

\* The pipeline command calls search (job-hunt.ts lines 328-361).
KeyOfCmdPipeline(s, site, location, remote, results) ==
    KeyBuilt(s, "cmdPipeline",
             CmdPipelineOpts(site, location, remote, results, Undefined,
                             profile, Undefined))

\* Another caller calls the exported search (search.ts lines 170-175).
KeyOfCaller(s, o) == KeyBuilt(s, "caller", o)

KeyNext ==
    \/ \E s \in KeySlots, site \in GivenSites, location \in GivenLocations,
          remote \in GivenRemote, results \in GivenResults,
          hoursOld \in GivenHoursOld :
          KeyOfCmdSearch(s, site, location, remote, results, hoursOld)
    \/ \E s \in KeySlots, site \in GivenSites, location \in GivenLocations,
          remote \in GivenRemote, results \in GivenResults :
          KeyOfCmdPipeline(s, site, location, remote, results)
    \/ \E s \in KeySlots, o \in CallerOpts : KeyOfCaller(s, o)

SpecKey == KeyInit /\ [][KeyNext]_vars

----------------------------------------------------------------------------
(* One search over several boards whose answers are fixed in advance       *)

\* Two Greenhouse boards and two Lever sites.
IsolationProfile ==
    [greenhouseBoards |-> <<"acme", "globex">>, leverSites |-> <<"initech", "hooli">>]

\* --site names a board the scraper does not serve: the REST adapters run alone.
IsolationSites == { Str("greenhouse") }

\* A board answers a posting whose absolute_url is the empty string.
GhEmptyUrl == [kind |-> "json", jobs |-> << GhPosting(Eng, Remote, <<>>, "") >>]

IsolationGhAnswers == GhResponses \cup { GhEmptyUrl }

IsolationInit ==
    /\ profile = IsolationProfile
    /\ world \in [gh : [1..2 -> IsolationGhAnswers], lv : [1..2 -> LvResponses]]
    /\ SearchIdle
    /\ DedupeOff
    /\ KeyOff
    /\ FnOff
    /\ TrackOff

\* The fetch in flight is answered as the world says for its identifier.
GhFetchAnswers(c) ==
    /\ gh[c].st = "pending"
    /\ GhFetchSettles(c, world.gh[gh[c].idx])

LvFetchAnswers(c) ==
    /\ lv[c].st = "pending"
    /\ LvFetchSettles(c, world.lv[lv[c].idx])

IsolationNext ==
    \/ \E site \in IsolationSites, q \in Queries : cmdSearch("c1", site, q)
    \/ GhFetchAnswers("c1")
    \/ LvFetchAnswers("c1")
    \/ SearchJoins("c1")

SpecIsolation == IsolationInit /\ [][IsolationNext]_vars

----------------------------------------------------------------------------
(* The relevance filter on its own                                         *)

BackendEngineer == <<"B", "a", "c", "k", "e", "n", "d", " ", "E", "n", "g", "i", "n", "e", "e", "r">>
NurseTitle == <<"N", "u", "r", "s", "e">>
Nursing == <<"N", "u", "r", "s", "i", "n", "g">>

\* Queries: two words, one word, a word after or before a space, two words
\* two spaces apart, a word in capitals, a word no sample posting holds.
FilterQueries ==
    { <<"e", "n", "g", "i", "n", "e", "e", "r", " ", "r", "e", "m", "o", "t", "e">>,
      <<"n", "u", "r", "s", "e">>,
      <<" ", "n", "u", "r", "s", "e">>,
      <<"n", "u", "r", "s", "e", " ">>,
      <<"c", "h", "e", "f", " ", " ", "r", "e", "m", "o", "t", "e">>,
      <<"R", "E", "M", "O", "T", "E">>,
      <<"c", "h", "e", "f">> }

\* The texts of a posting: title, location, team (Lever's categories.team).
FilterPostings ==
    { [title |-> BackendEngineer, location |-> Remote, team |-> Undefined],
      [title |-> BackendEngineer, location |-> Undefined, team |-> Undefined],
      [title |-> BackendEngineer, location |-> Undefined, team |-> Nursing],
      [title |-> NurseTitle, location |-> Remote, team |-> Undefined],
      [title |-> NurseTitle, location |-> Undefined, team |-> Nursing] }

FilterInit ==
    /\ fin \in [adapter : {"greenhouse", "lever"}, query : FilterQueries,
                 posting : FilterPostings]
    /\ fout = <<>>
    /\ fpc = "in"
    /\ profile = [greenhouseBoards |-> <<>>, leverSites |-> <<>>]
    /\ SearchIdle
    /\ world = NoWorld
    /\ DedupeOff
    /\ KeyOff
    /\ TrackOff

\* The filter callback of searchGreenhouse runs on a posting (search.ts
\* lines 82-86).
GhFilterApplies ==
    /\ fpc = "in" /\ fin.adapter = "greenhouse"
    /\ fout' = GhMatches(fin.query,
                         GhPosting(fin.posting.title, fin.posting.location, UrlA, ""))
    /\ fpc' = "out"
    /\ UNCHANGED <<fin, nonFnVars>>

\* The filter callback of searchLever runs on a posting (search.ts lines
\* 126-130).
LvFilterApplies ==
    /\ fpc = "in" /\ fin.adapter = "lever"
    /\ fout' = LvMatches(fin.query,
                         LvPosting(fin.posting.title, fin.posting.location,
                                   fin.posting.team, UrlA, UrlA, ""))
    /\ fpc' = "out"
    /\ UNCHANGED <<fin, nonFnVars>>

FilterNext == GhFilterApplies \/ LvFilterApplies

SpecFilter == FilterInit /\ [][FilterNext]_vars

----------------------------------------------------------------------------
(* formatSalary (lib/format)                                               *)

\* An amount argument: null, or a number.
NoAmount == [present |-> FALSE, n |-> 0]
Amount(n) == [present |-> TRUE, n |-> n]

\* JavaScript truthiness of an amount: null and 0 are falsy.
TruthyAmount(a) == a.present /\ a.n # 0

\* JavaScript truthiness of a string-or-null argument.
TruthyText(t) == t # JsonNull /\ t # <<>>

Digit(d) == <<"0", "1", "2", "3", "4", "5", "6", "7", "8", "9">>[d + 1]

RECURSIVE Decimal(_)
Decimal(n) == IF n < 10 THEN <<Digit(n)>> ELSE Decimal(n \div 10) \o <<Digit(n % 10)>>

\* Number.prototype.toLocaleString of a non-negative integer (en-US): the
\* decimal digits in groups of three, separated by commas.
RECURSIVE toLocaleString(_)
toLocaleString(n) ==
    IF n < 1000
    THEN Decimal(n)
    ELSE toLocaleString(n \div 1000) \o <<",">>
         \o <<Digit((n % 1000) \div 100), Digit((n % 100) \div 10), Digit(n % 10)>>

\* formatSalary(min, max, interval, currency): null or the text.
formatSalary(min, max, interval, currency) ==
    LET curr == IF TruthyText(currency) THEN currency ELSE <<"U", "S", "D">>
        per == IF TruthyText(interval) THEN <<"/">> \o interval ELSE <<>>
    IN IF ~TruthyAmount(min) /\ ~TruthyAmount(max) THEN JsonNull
       ELSE IF TruthyAmount(min) /\ TruthyAmount(max)
            THEN curr \o <<" ">> \o toLocaleString(min.n) \o <<"-">>
                 \o toLocaleString(max.n) \o per
       ELSE IF TruthyAmount(min)
            THEN curr \o <<" ">> \o toLocaleString(min.n) \o <<"+">> \o per
       ELSE <<"u", "p", " ", "t", "o", " ">> \o curr \o <<" ">> \o toLocaleString(max.n) \o per

SalaryMins == { NoAmount, Amount(0), Amount(950), Amount(120000) }
SalaryMaxs == { NoAmount, Amount(0), Amount(150000), Amount(1500000) }
SalaryIntervals == { JsonNull, <<"y", "e", "a", "r", "l", "y">>, <<"h", "o", "u", "r", "l", "y">> }
SalaryCurrencies == { JsonNull, <<"U", "S", "D">>, <<"E", "U", "R">> }

SalaryInit ==
    /\ fin \in [min : SalaryMins, max : SalaryMaxs, interval : SalaryIntervals,
                 currency : SalaryCurrencies]
    /\ fout = <<>>
    /\ fpc = "in"
    /\ profile = [greenhouseBoards |-> <<>>, leverSites |-> <<>>]
    /\ SearchIdle
    /\ world = NoWorld
    /\ DedupeOff
    /\ KeyOff
    /\ TrackOff

\* searchJobSpy formats the salary of a record (search.ts line 60).
FormatSalaryCall ==
    /\ fpc = "in"
    /\ fout' = formatSalary(fin.min, fin.max, fin.interval, fin.currency)
    /\ fpc' = "out"
    /\ UNCHANGED <<fin, nonFnVars>>

SalaryNext == FormatSalaryCall

SpecSalary == SalaryInit /\ [][SalaryNext]_vars

----------------------------------------------------------------------------
(* The job tracker (lib/tracker, src/unnamed/part_003)                     *)

\* JobStatus.
JobStatuses ==
    {"new", "researched", "tailored", "applied", "interviewing", "offer", "rejected"}

\* Job URLs the tracker is given. It hashes and copies a URL and does not
\* compute on its characters.
TrackedUrls == {"u1", "u2", "u3"}

\* jobId(url): the first 8 hex digits of the MD5 digest of the URL. The
\* digest is not computed here; the table gives the ids of the sample URLs.
\* 8 hex digits are 32 bits, so distinct URLs can have one id: u1 and u3 do.
jobId(url) ==
    CASE url = "u1" -> "id1"
      [] url = "u2" -> "id2"
      [] url = "u3" -> "id1"

\* What find gives when no element matches, and the null the updates return.
JobUndefined == [undefined |-> TRUE]
JobNull == [null |-> TRUE]

\* jobs.find((j) => j.id === id), as the index of the first match, 0 if none.
FindIndex(jobs, id) ==
    IF \E i \in 1..Len(jobs) : jobs[i].id = id
    THEN CHOOSE i \in 1..Len(jobs) :
             /\ jobs[i].id = id
             /\ \A k \in 1..(i-1) : jobs[k].id # id
    ELSE 0

\* get(id) on the loaded list.
get(jobs, id) ==
    IF FindIndex(jobs, id) = 0 THEN JobUndefined ELSE jobs[FindIndex(jobs, id)]

\* The record add builds: the fields of its argument (title stands for all
\* the copied ones), the id, status "new" and the three flags false.
\* dateFound, the time of the call, is left out.
TrackedJob(job) ==
    [id |-> jobId(job.jobUrl), jobUrl |-> job.jobUrl, title |-> job.title,
     status |-> "new",
     researchDone |-> FALSE, resumeTailored |-> FALSE, letterDrafted |-> FALSE]

\* A variant of add that looks the job up by its URL instead of its id.
addFindingByUrl(jobs, job) ==
    IF \E i \in 1..Len(jobs) : jobs[i].jobUrl = job.jobUrl
    THEN [jobs |-> jobs, saved |-> FALSE,
          result |-> jobs[CHOOSE i \in 1..Len(jobs) : jobs[i].jobUrl = job.jobUrl]]
    ELSE [jobs |-> Append(jobs, TrackedJob(job)), saved |-> TRUE,
          result |-> TrackedJob(job)]

\* add(job) on the loaded list: the list to save (saved: whether save is
\* called) and the job returned.
add(jobs, job) ==
    LET k == FindIndex(jobs, jobId(job.jobUrl))
    IN IF k # 0
       THEN [jobs |-> jobs, saved |-> FALSE, result |-> jobs[k]]
       ELSE [jobs |-> Append(jobs, TrackedJob(job)), saved |-> TRUE,
             result |-> TrackedJob(job)]

\* A variant of updateStatus that sets the status of every tracked job.
updateStatusOfAll(jobs, id, status) ==
    LET k == FindIndex(jobs, id)
    IN IF k = 0
       THEN [jobs |-> jobs, saved |-> FALSE, result |-> JobNull]
       ELSE [jobs |-> [i \in 1..Len(jobs) |-> [jobs[i] EXCEPT !.status = status]],
             saved |-> TRUE,
             result |-> [jobs[k] EXCEPT !.status = status]]

\* updateStatus(id, status) on the loaded list.
updateStatus(jobs, id, status) ==
    LET k == FindIndex(jobs, id)
    IN IF k = 0
       THEN [jobs |-> jobs, saved |-> FALSE, result |-> JobNull]
       ELSE [jobs |-> [jobs EXCEPT ![k].status = status], saved |-> TRUE,
             result |-> [jobs[k] EXCEPT !.status = status]]

\* Object.assign(job, flags): the properties of flags overwrite those of job.
ObjectAssign(job, flags) ==
    [f \in DOMAIN job |-> IF f \in DOMAIN flags THEN flags[f] ELSE job[f]]

\* updateFlags(id, flags) on the loaded list.
updateFlags(jobs, id, flags) ==
    LET k == FindIndex(jobs, id)
    IN IF k = 0
       THEN [jobs |-> jobs, saved |-> FALSE, result |-> JobNull]
       ELSE [jobs |-> [jobs EXCEPT ![k] = ObjectAssign(jobs[k], flags)],
             saved |-> TRUE,
             result |-> ObjectAssign(jobs[k], flags)]

\* remove(id) on the loaded list.
remove(jobs, id) ==
    LET filtered == SelectSeq(jobs, LAMBDA j : j.id # id)
    IN IF Len(filtered) = Len(jobs)
       THEN [jobs |-> jobs, saved |-> FALSE, result |-> FALSE]
       ELSE [jobs |-> filtered, saved |-> TRUE, result |-> TRUE]

\* The jobs handed to add: two URLs with one id, and a third.
NewJobs ==
    { [jobUrl |-> "u1", title |-> Eng],
      [jobUrl |-> "u2", title |-> RN],
      [jobUrl |-> "u3", title |-> RN] }

\* The ids given to the operations: the two of the sample URLs and one that
\* is never tracked.
TrackerIds == {"id1", "id2", "id9"}

\* The statuses and the flag objects the callers of the library pass.
CallerStatuses == {"new", "applied", "offer"}

CallerFlags ==
    { [researchDone |-> TRUE],
      [resumeTailored |-> TRUE, letterDrafted |-> TRUE],
      [researchDone |-> FALSE] }

\* args[2] and args[3] of `jobs status`: "" stands for an argument that is
\* not given, "done" for a word that is no status.
GivenIds == TrackerIds \cup {""}
GivenStatuses == {"researched", "done", ""}

TrackerInit ==
    /\ store = <<>>
    /\ tout = NoOutcome
    /\ profile = [greenhouseBoards |-> <<>>, leverSites |-> <<>>]
    /\ SearchIdle
    /\ world = NoWorld
    /\ FnOff
    /\ DedupeOff
    /\ KeyOff

\* One call of a library function: load, the function, save if it saves.
Called(op, id, arg, r) ==
    /\ store' = r.jobs
    /\ tout' = [op |-> op, id |-> id, arg |-> arg, before |-> store,
                saved |-> r.saved, result |-> r.result, exit |-> 0]
    /\ UNCHANGED nonTrackVars

AddCall(job) == Called("add", jobId(job.jobUrl), job, add(store, job))

UpdateStatusCall(id, status) ==
    Called("updateStatus", id, status, updateStatus(store, id, status))

UpdateFlagsCall(id, flags) ==
    Called("updateFlags", id, flags, updateFlags(store, id, flags))

RemoveCall(id) == Called("remove", id, "", remove(store, id))

\* `jobs status <id> <status>` (job-hunt.ts lines 188-208): a missing
\* argument and a word that is no status end the process with status 1
\* before the tracker is called; so does an id that is not tracked, after.
cmdJobsStatus(id, status) ==
    /\ IF id = "" \/ status = "" \/ status \notin JobStatuses
       THEN /\ store' = store
            /\ tout' = [op |-> "jobs status", id |-> id, arg |-> status,
                        before |-> store, saved |-> FALSE, result |-> JobNull,
                        exit |-> 1]
       ELSE LET r == updateStatus(store, id, status)
            IN /\ store' = r.jobs
               /\ tout' = [op |-> "jobs status", id |-> id, arg |-> status,
                           before |-> store, saved |-> r.saved,
                           result |-> r.result,
                           exit |-> IF r.result = JobNull THEN 1 ELSE 0]
    /\ UNCHANGED nonTrackVars

TrackerNext ==
    \/ \E job \in NewJobs : AddCall(job)
    \/ \E id \in TrackerIds, status \in CallerStatuses : UpdateStatusCall(id, status)
    \/ \E id \in TrackerIds, flags \in CallerFlags : UpdateFlagsCall(id, flags)
    \/ \E id \in TrackerIds : RemoveCall(id)
    \/ \E id \in GivenIds, status \in GivenStatuses : cmdJobsStatus(id, status)

SpecTracker == TrackerInit /\ [][TrackerNext]_vars

----------------------------------------------------------------------------
(* The CLI commands that reach the tracker (src/job-hunt.ts)               *)

\* The lists search can hand to its caller, in the fields tracker.add is
\* given: after dedupe no URL occurs twice.
ResultLists ==
    { s \in SeqsUpTo(NewJobs, Cardinality(NewJobs)) :
          \A i, k \in 1..Len(s) : s[i] = s[k] => i = k }

\* A variant of the save loop that counts every result.
RECURSIVE SaveFromCountingAll(_, _, _, _)
SaveFromCountingAll(jobs, list, i, added) ==
    IF i > Len(list)
    THEN [jobs |-> jobs, added |-> added]
    ELSE SaveFromCountingAll(add(jobs, list[i]).jobs, list, i + 1, added + 1)

\* The loop of `search --save` from its i-th result on (job-hunt.ts lines
\* 141-157): each result is looked up by its id, added, and counted if the
\* lookup found nothing.
RECURSIVE SaveFrom(_, _, _, _)
SaveFrom(jobs, list, i, added) ==
    IF i > Len(list)
    THEN [jobs |-> jobs, added |-> added]
    ELSE LET isNew == get(jobs, jobId(list[i].jobUrl)) = JobUndefined
         IN SaveFrom(add(jobs, list[i]).jobs, list, i + 1,
                     IF isNew THEN added + 1 ELSE added)

\* `search <query> --save` once search has returned (job-hunt.ts lines
\* 129-159): with no result the command returns before it saves and reports
\* no count.
cmdSearchSaves(list) ==
    /\ LET r == SaveFrom(store, list, 1, 0)
       IN IF list = <<>>
          THEN /\ store' = store
               /\ tout' = [op |-> "search --save", id |-> "", arg |-> list,
                           before |-> store, saved |-> FALSE, result |-> JobNull,
                           exit |-> 0]
          ELSE /\ store' = r.jobs
               /\ tout' = [op |-> "search --save", id |-> "", arg |-> list,
                           before |-> store, saved |-> r.jobs # store,
                           result |-> [added |-> r.added], exit |-> 0]
    /\ UNCHANGED nonTrackVars

\* jobs.slice(0, top), for a top of 0 or more.
Slice(list, top) == SubSeq(list, 1, IF top < Len(list) THEN top ELSE Len(list))

\* The loop of pipeline over the top jobs (job-hunt.ts lines 372-385).
RECURSIVE AddFrom(_, _, _)
AddFrom(jobs, list, i) ==
    IF i > Len(list) THEN jobs ELSE AddFrom(add(jobs, list[i]).jobs, list, i + 1)

\* --top: not given (3), or 1.
GivenTops == {1, 3}

\* `pipeline <query> --top N` once search has returned (job-hunt.ts lines
\* 363-432): the top N results are added, then the prompts of each are
\* printed.
cmdPipelineSaves(list, top) ==
    /\ store' = IF list = <<>> THEN store ELSE AddFrom(store, Slice(list, top), 1)
    /\ tout' = [op |-> "pipeline", id |-> "", arg |-> list, before |-> store,
                saved |-> store' # store, result |-> JobNull, exit |-> 0]
    /\ UNCHANGED nonTrackVars

\* `jobs remove <id>` (job-hunt.ts lines 210-222).
cmdJobsRemove(id) ==
    /\ LET r == remove(store, id)
       IN IF id = ""
          THEN /\ store' = store
               /\ tout' = [op |-> "jobs remove", id |-> id, arg |-> "",
                           before |-> store, saved |-> FALSE, result |-> FALSE,
                           exit |-> 1]
          ELSE /\ store' = r.jobs
               /\ tout' = [op |-> "jobs remove", id |-> id, arg |-> "",
                           before |-> store, saved |-> r.saved,
                           result |-> r.result, exit |-> 0]
    /\ UNCHANGED nonTrackVars

\* A variant of Prompts that marks the research of the job as done.
PromptsMarkingDone(op, id, failed) ==
    /\ store' = updateFlags(store, id, [researchDone |-> TRUE]).jobs
    /\ tout' = [op |-> op, id |-> id, arg |-> "", before |-> store,
                saved |-> store' # store, result |-> get(store, id),
                exit |-> IF failed THEN 1 ELSE 0]
    /\ UNCHANGED nonTrackVars

\* A command that prints a prompt: it reads the tracked job and writes
\* nothing to the tracker. failed: whether it ended with status 1.
Prompts(op, id, failed) ==
    /\ store' = store
    /\ tout' = [op |-> op, id |-> id, arg |-> "", before |-> store,
                saved |-> FALSE, result |-> get(store, id),
                exit |-> IF failed THEN 1 ELSE 0]
    /\ UNCHANGED nonTrackVars

\* `research <id>` (job-hunt.ts lines 232-245; buildPrompt of lib/research).
cmdResearch(id) ==
    Prompts("research", id, id = "" \/ get(store, id) = JobUndefined)

\* `tailor <id>` (job-hunt.ts lines 247-260; lib/tailor.ts lines 42-101).
\* hasProfile: whether data/profile.json can be read.
cmdTailor(id, hasProfile) ==
    Prompts("tailor", id, id = "" \/ get(store, id) = JobUndefined \/ ~hasProfile)

\* `letter <id>` (job-hunt.ts lines 262-275; lib/cover-letter.ts lines 28-88).
cmdLetter(id, hasProfile) ==
    Prompts("letter", id, id = "" \/ get(store, id) = JobUndefined \/ ~hasProfile)

\* `package <id>` (job-hunt.ts lines 277-326): the three prompts, those of
\* tailor and letter skipped when they throw.
cmdPackage(id) ==
    Prompts("package", id, id = "" \/ get(store, id) = JobUndefined)

\* The materials formatTrackedJob lists for a job (part_004 lines 90-97).
Materials(job) ==
    (IF job.researchDone THEN <<"research">> ELSE <<>>)
    \o (IF job.resumeTailored THEN <<"resume">> ELSE <<>>)
    \o (IF job.letterDrafted THEN <<"letter">> ELSE <<>>)

\* args[3] of `jobs status` in this specification: every status, a word
\* that is none, and no word.
CliStatuses == JobStatuses \cup {"done", ""}

CliNext ==
    \/ \E list \in ResultLists : cmdSearchSaves(list)
    \/ \E list \in ResultLists, top \in GivenTops : cmdPipelineSaves(list, top)
    \/ \E id \in GivenIds, status \in CliStatuses : cmdJobsStatus(id, status)
    \/ \E id \in GivenIds : cmdJobsRemove(id)
    \/ \E id \in GivenIds : cmdResearch(id)
    \/ \E id \in GivenIds, hasProfile \in BOOLEAN : cmdTailor(id, hasProfile)
    \/ \E id \in GivenIds, hasProfile \in BOOLEAN : cmdLetter(id, hasProfile)
    \/ \E id \in GivenIds : cmdPackage(id)

SpecCli == TrackerInit /\ [][CliNext]_vars

----------------------------------------------------------------------------
(* Properties                                                              *)

Finished(c) == pc[c] \in {"returned", "rejected"}

\* The call looked the cache up and missed.
Missed(c) == pc[c] \in {"fanout", "returned", "rejected"} /\ ~io[c].hit

KeyOf(c) == CacheKey(req[c].query, req[c].params)

NoAdapterCall(c) ==
    /\ js[c].st = "none" /\ gh[c].st = "none" /\ lv[c].st = "none"
    /\ io[c].scrapes = <<>> /\ io[c].ghFetches = <<>> /\ io[c].lvFetches = <<>>

\* C1: a search that finds, under (query, serialized opts), a cache entry no
\* older than 30 minutes returns exactly the cached list and starts no adapter
\* call: no scrape, no Greenhouse fetch, no Lever fetch.
C1_HitReturnsCachedNoFetch ==
    [][\A c \in Calls :
          (pc[c] = "idle" /\ pc'[c] \in {"fanout", "returned", "rejected"}) =>
              LET k == CacheKey(req'[c].query, JSONstringify(req'[c].opts))
              IN (k \in DOMAIN cache /\ now - cache[k].storedAt <= CACHE_TTL_MS) =>
                     /\ pc'[c] = "returned"
                     /\ ret'[c] = cache[k].value
                     /\ js'[c].st = "none" /\ gh'[c].st = "none" /\ lv'[c].st = "none"
                     /\ io'[c].scrapes = <<>>
                     /\ io'[c].ghFetches = <<>>
                     /\ io'[c].lvFetches = <<>>]_vars

\* A second search hit the entry a first one stored, non-empty or empty.
C1_Witness ==
    \E c \in Calls :
        /\ pc[c] = "returned" /\ io[c].hit /\ NoAdapterCall(c)
        /\ KeyOf(c) \in DOMAIN cache /\ ret[c] = cache[KeyOf(c)].value

\* The dedup key as the specification words it: the query string stripped,
\* then the trailing slashes, then case-folded.
BeforeQuery(u) ==
    LET n == CHOOSE n \in 0..Len(u) :
                 /\ \A i \in 1..n : u[i] # "?"
                 /\ (n = Len(u) \/ u[n + 1] = "?")
    IN SubSeq(u, 1, n)

WithoutTrailingSlashes(u) ==
    LET n == CHOOSE n \in 0..Len(u) :
                 /\ (n = 0 \/ u[n] # "/")
                 /\ \A i \in (n + 1)..Len(u) : u[i] = "/"
    IN SubSeq(u, 1, n)

DedupKey(u) ==
    LET t == WithoutTrailingSlashes(BeforeQuery(u))
    IN [i \in 1..Len(t) |-> LowerChar(t[i])]

FirstWithKey(jobs, i) ==
    \A k \in 1..(i - 1) : DedupKey(jobs[k].jobUrl) # DedupKey(jobs[i].jobUrl)

\* C2: the list dedupe returns for the merged list holds no two jobs with the
\* same dedup key; the job kept for a key is the first one of the merged list
\* with that key; every key of the merged list is still there.
C2_DedupeKeepsFirstOfEachKey ==
    dpc = "out" =>
        /\ \A i, j \in 1..Len(deduped) :
               i # j => DedupKey(deduped[i].jobUrl) # DedupKey(deduped[j].jobUrl)
        /\ \A j \in 1..Len(deduped) :
               \E i \in 1..Len(merged) : FirstWithKey(merged, i) /\ merged[i] = deduped[j]
        /\ \A i \in 1..Len(merged) :
               \E j \in 1..Len(deduped) :
                   DedupKey(deduped[j].jobUrl) = DedupKey(merged[i].jobUrl)

\* Two jobs of different sources whose URLs differ as strings but share a
\* key went in, and the first of them came out alone.
C2_Witness ==
    /\ dpc = "out"
    /\ Len(merged) = 2 /\ Len(deduped) = 1
    /\ merged[1].jobUrl # merged[2].jobUrl
    /\ merged[1].source # merged[2].source
    /\ deduped[1] = merged[1]

\* What an adapter that was started and has settled contributed.
Settled(c) ==
    /\ js[c].st # "pending" /\ gh[c].st # "pending" /\ lv[c].st # "pending"

JobSpyFailed(c) == js[c].st # "none" /\ js[c].fault # "none"

AllIn(jobs, list) ==
    \A i \in 1..Len(jobs) : \E k \in 1..Len(list) : list[k] = jobs[i]

C4_SearchNeverRejects == \A c \in Calls : pc[c] # "rejected"

Unreachable(loop) ==
    \A i \in 1..Len(loop.faults) : loop.faults[i] = "unreachable"

AllSourcesUnreachable(c) ==
    /\ Missed(c) /\ Settled(c)
    /\ js[c].st # "none" => js[c].fault = "unreachable"
    /\ Unreachable(gh[c])
    /\ Unreachable(lv[c])

\* C5 (as claimed): when the scraper rejects and every Greenhouse and Lever
\* fetch fails or answers a non-2xx status, search returns the empty list and
\* no error.
C5_AllUnreachableGivesEmptyList ==
    \A c \in Calls :
        AllSourcesUnreachable(c) =>
            /\ pc[c] # "rejected"
            /\ pc[c] = "returned" => ret[c] = <<>>

SiteOf(c) == Prop(req[c].opts, "site")

NonEmptyList(v) == v # Undefined /\ v[1] = "array" /\ Len(v) > 1

AdaptersAsConfigured(c) ==
    /\ io[c].ghFetches # <<>> <=> NonEmptyList(Prop(req[c].opts, "greenhouseBoards"))
    /\ io[c].lvFetches # <<>> <=> NonEmptyList(Prop(req[c].opts, "leverSites"))

C7_MissStoresReturnedList ==
    \A c \in Calls :
        (pc[c] = "returned" /\ ~io[c].hit) =>
            /\ KeyOf(c) \in DOMAIN cache
            /\ cache[KeyOf(c)].value = ret[c]
            /\ now - cache[KeyOf(c)].storedAt <= CACHE_TTL_MS =>
                   cacheGet(req[c].query, JSONstringify(req[c].opts), CACHE_TTL_MS)
                       = [found |-> TRUE, value |-> ret[c]]

\* A miss returned a list from which dedupe had removed a duplicate, and the
\* stored list is that list.
C7_Witness ==
    \E c \in Calls :
        /\ pc[c] = "returned" /\ ~io[c].hit
        /\ Len(ret[c]) >= 2
        /\ Len(ret[c]) < Len(js[c].jobs) + Len(gh[c].jobs) + Len(lv[c].jobs)
        /\ cache[KeyOf(c)].value = ret[c]

\* The options as a field-to-value map: a property whose value is undefined
\* counts as absent.
OptionMap(o) == { o[i] : i \in { n \in 1..Len(o) : o[n][2] # Undefined } }

\* C8 (as claimed): two calls with the same query use the same cache key iff
\* their options are equal as field-to-value maps, whatever the order of the
\* fields and whichever call site built them.
C8_KeyDependsOnOptionMapOnly ==
    \A a, b \in KeySlots :
        (kby[a] # "none" /\ kby[b] # "none") =>
            (OptionMap(kopts[a]) = OptionMap(kopts[b]) <=> kkey[a] = kkey[b])

\* C9 (as claimed): a call that misses reads the cache once, before any
\* adapter call; it writes the cache once, after every started adapter call
\* has settled and before it ends; a call that hits does not write.
C9_OneReadOneWrite ==
    \A c \in Calls :
        /\ (pc[c] \in {"fanout", "returned", "rejected"}) => io[c].reads = 1
        /\ ~NoAdapterCall(c) => io[c].reads = 1
        /\ io[c].writes > 0 => (io[c].writes = 1 /\ Settled(c) /\ Finished(c))
        /\ (Finished(c) /\ ~io[c].hit) => (io[c].writes = 1 /\ Settled(c))
        /\ io[c].hit => io[c].writes = 0

\* C10 (as claimed): when two calls for the same key both miss, both complete,
\* each returns its own deduplicated list, and the cache entry of the key is
\* one of the two returned lists, whole.
C10_RaceIsBenign ==
    \A c, d \in Calls :
        (c # d /\ Missed(c) /\ Missed(d) /\ KeyOf(c) = KeyOf(d)
             /\ Finished(c) /\ Finished(d) /\ Settled(c) /\ Settled(d)) =>
            /\ pc[c] = "returned" /\ pc[d] = "returned"
            /\ ret[c] = dedupe(js[c].jobs \o gh[c].jobs \o lv[c].jobs)
            /\ ret[d] = dedupe(js[d].jobs \o gh[d].jobs \o lv[d].jobs)
            /\ KeyOf(c) \in DOMAIN cache
            /\ cache[KeyOf(c)].value \in {ret[c], ret[d]}

ThirtyMinutes == 30 * 60 * 1000

\* C12: what set stored under a key is what get returns for that key while
\* now - storedAt <= 30 minutes, and get returns absent after that: a call
\* hits iff the store holds an entry of its key that is at most 30 minutes
\* old, and then returns the entry's value; a write stores the returned list
\* with the time of the write; an entry changes only when a call writes its key.
C12_ServedForThirtyMinutes ==
    [][\A c \in Calls :
          /\ (pc[c] = "idle" /\ pc'[c] \in {"fanout", "returned", "rejected"}) =>
                 LET k == CacheKey(req'[c].query, req'[c].params)
                 IN IF k \in DOMAIN cache /\ now - cache[k].storedAt <= ThirtyMinutes
                    THEN io'[c].hit /\ pc'[c] = "returned" /\ ret'[c] = cache[k].value
                    ELSE ~io'[c].hit /\ pc'[c] = "fanout"
          /\ (pc[c] = "fanout" /\ pc'[c] = "returned") =>
                 cache'[KeyOf(c)] = [value |-> ret'[c], storedAt |-> now]
          /\ \A k \in DOMAIN cache :
                 /\ k \in DOMAIN cache'
                 /\ cache'[k] # cache[k] =>
                        \E d \in Calls : pc[d] = "fanout" /\ pc'[d] = "returned" /\ KeyOf(d) = k
      ]_vars

\* A call found the entry of its key older than 30 minutes, missed and is
\* fetching; the expired entry is still in the store.
C12_Witness ==
    \E c \in Calls :
        /\ pc[c] = "fanout" /\ ~io[c].hit
        /\ KeyOf(c) \in DOMAIN cache
        /\ now - cache[KeyOf(c)].storedAt > ThirtyMinutes

\* The words of a query: the maximal runs of its lower-cased characters that
\* hold no whitespace.
QueryWords(q) ==
    LET lq == [i \in 1..Len(q) |-> LowerChar(q[i])]
    IN { SubSeq(lq, i, j) : <<i, j>> \in
            { ij \in (1..Len(q)) \X (1..Len(q)) :
                 /\ ij[1] <= ij[2]
                 /\ \A k \in ij[1]..ij[2] : lq[k] # " "
                 /\ (ij[1] = 1 \/ lq[ij[1] - 1] = " ")
                 /\ (ij[2] = Len(q) \/ lq[ij[2] + 1] = " ") } }

\* The lower-cased text of a posting: title and location, and the team for
\* Lever; a field the posting lacks adds nothing.
PostingText(adapter, posting) ==
    LET t == posting.title \o <<" ">> \o OrEmpty(posting.location)
             \o (IF adapter = "lever" THEN <<" ">> \o OrEmpty(posting.team) ELSE <<>>)
    IN [i \in 1..Len(t) |-> LowerChar(t[i])]

IsSubstring(w, text) ==
    \E k \in 1..(Len(text) - Len(w) + 1) :
        \A i \in 1..Len(w) : text[k + i - 1] = w[i]

\* C13 (as claimed): a posting passes the filter of the Greenhouse or Lever
\* adapter iff at least one word of the query is a substring of its text, for
\* every query, those with leading, trailing or repeated whitespace included.
C13_FilterByQueryWords ==
    fpc = "out" =>
        (fout <=> \E w \in QueryWords(fin.query) :
                      IsSubstring(w, PostingText(fin.adapter, fin.posting)))

\* The jobs of one identifier in an adapter's results, in their order (both
\* REST adapters write the identifier to the company field).
JobsOf(jobs, id) == SelectSeq(jobs, LAMBDA j : j.company = id)

\* The answer of a Greenhouse board can be handled to the end.
GhSucceeds(resp) ==
    resp.kind = "json" /\ \A i \in 1..Len(resp.jobs) : ~resp.jobs[i].isNull

\* The answer of a Lever site can be handled to the end.
LvSucceeds(query, resp) ==
    /\ resp.kind = "json"
    /\ \A i \in 1..Len(resp.postings) :
           LvMatches(query, resp.postings[i]) => resp.postings[i].createdAt # "invalid"

GhExpected(query, board, resp) ==
    LET m == SelectSeq(resp.jobs, LAMBDA j : GhMatches(query, j))
    IN [i \in 1..Len(m) |-> MapGhPosting(board, m[i])]

LvExpected(query, site, resp) ==
    LET m == SelectSeq(resp.postings, LAMBDA p : LvMatches(query, p))
    IN [i \in 1..Len(m) |-> MapLvPosting(site, m[i])]

\* C14: in the result of the Greenhouse and of the Lever adapter, the jobs of
\* every identifier whose handling succeeded are all of its matching
\* postings, whatever happened to the identifiers before and after it.
C14_FailureKeepsOtherIdentifiers ==
    \A c \in Calls :
        /\ \A i \in 1..Len(gh[c].faults) :
               GhSucceeds(world.gh[i]) =>
                   JobsOf(gh[c].jobs, gh[c].ids[i])
                       = GhExpected(req[c].query, gh[c].ids[i], world.gh[i])
        /\ \A i \in 1..Len(lv[c].faults) :
               LvSucceeds(req[c].query, world.lv[i]) =>
                   JobsOf(lv[c].jobs, lv[c].ids[i])
                       = LvExpected(req[c].query, lv[c].ids[i], world.lv[i])

\* The Greenhouse adapter returned: its first board gave jobs, its second
\* failed, and the jobs of the first are in the result; the Lever adapter
\* returned the jobs of its second site after its first failed.
C14_Witness ==
    \E c \in Calls :
        /\ gh[c].st = "fulfilled" /\ lv[c].st = "fulfilled"
        /\ GhSucceeds(world.gh[1]) /\ ~GhSucceeds(world.gh[2])
        /\ JobsOf(gh[c].jobs, gh[c].ids[1]) # <<>>
        /\ world.lv[1].kind = "networkError"
        /\ JobsOf(lv[c].jobs, lv[c].ids[2]) # <<>>

\* C15 (as claimed): an identifier whose handling fails contributes no job to
\* the adapter's result, none of those pushed before the failure either.
C15_FailedIdentifierGivesNothing ==
    \A c \in Calls :
        /\ \A i \in 1..Len(gh[c].faults) :
               ~GhSucceeds(world.gh[i]) => JobsOf(gh[c].jobs, gh[c].ids[i]) = <<>>
        /\ \A i \in 1..Len(lv[c].faults) :
               ~LvSucceeds(req[c].query, world.lv[i]) =>
                   JobsOf(lv[c].jobs, lv[c].ids[i]) = <<>>

\* C17 (as claimed): every job of a list search returned, and of a list
\* search stored in the cache, has a jobUrl that is a non-empty string.
C17_JobUrlNonEmpty ==
    /\ \A c \in Calls :
           pc[c] = "returned" =>
               \A i \in 1..Len(ret[c]) :
                   ret[c][i].jobUrl # Undefined /\ ret[c][i].jobUrl # <<>>
    /\ \A k \in DOMAIN cache :
           \A i \in 1..Len(cache[k].value) :
               cache[k].value[i].jobUrl # Undefined /\ cache[k].value[i].jobUrl # <<>>

\* The identifiers an adapter was given.
BoardsOf(c) == ArrItems(Prop(req[c].opts, "greenhouseBoards"))
SitesOf(c) == ArrItems(Prop(req[c].opts, "leverSites"))

\* C18: the fetches an adapter has issued are, at every moment, the first
\* entries of its identifier list, each once and in order; when the adapter
\* has returned they are the whole list; a search that missed and returned
\* has issued |greenhouseBoards| + |leverSites| fetches.
C18_OneFetchPerIdentifier ==
    \A c \in Calls :
        Missed(c) =>
            /\ Len(io[c].ghFetches) <= Len(BoardsOf(c))
            /\ io[c].ghFetches = SubSeq(BoardsOf(c), 1, Len(io[c].ghFetches))
            /\ Len(io[c].lvFetches) <= Len(SitesOf(c))
            /\ io[c].lvFetches = SubSeq(SitesOf(c), 1, Len(io[c].lvFetches))
            /\ gh[c].st = "fulfilled" => io[c].ghFetches = BoardsOf(c)
            /\ lv[c].st = "fulfilled" => io[c].lvFetches = SitesOf(c)
            /\ pc[c] = "returned" =>
                   Len(io[c].ghFetches) + Len(io[c].lvFetches)
                       = Len(BoardsOf(c)) + Len(SitesOf(c))

\* A search over two boards and two sites returned after four fetches, the
\* first fetch of each adapter having failed.
C18_Witness ==
    \E c \in Calls :
        /\ pc[c] = "returned" /\ ~io[c].hit
        /\ io[c].ghFetches = <<"acme", "globex">>
        /\ io[c].lvFetches = <<"initech", "hooli">>
        /\ gh[c].faults[1] = "unreachable"
        /\ lv[c].faults[1] = "unreachable"

SourcesOf(list) == { list[i].source : i \in 1..Len(list) }

ClaimedSalary(min, max, interval, currency) ==
    IF min.present /\ max.present
    THEN currency \o <<" ">> \o toLocaleString(min.n) \o <<"-">>
         \o toLocaleString(max.n) \o <<"/">> \o interval
    ELSE IF min.present
         THEN currency \o <<" ">> \o toLocaleString(min.n) \o <<"+", "/">> \o interval
         ELSE <<"u", "p", " ", "t", "o", " ">> \o currency \o <<" ">> \o toLocaleString(max.n)
              \o <<"/">> \o interval

\* C19 (as claimed): formatSalary returns null iff neither bound is present;
\* with a currency and an interval given it returns the text of the case of
\* the two bounds, for bounds drawn from null and the non-negative amounts,
\* the amount 0 included.
C19_SalaryCases ==
    fpc = "out" =>
        /\ fout = JsonNull <=> (~fin.min.present /\ ~fin.max.present)
        /\ (fin.interval # JsonNull /\ fin.currency # JsonNull
               /\ (fin.min.present \/ fin.max.present)) =>
               fout = ClaimedSalary(fin.min, fin.max, fin.interval, fin.currency)

\* C20 (as claimed): a search with --site linkedin or --site indeed queries
\* that board alone: the scraper is asked for that site only, no Greenhouse
\* and no Lever fetch is issued, and every job of the returned list is of
\* that board.
C20_SiteRestrictsToOneBoard ==
    \A c \in Calls :
        (Missed(c) /\ SiteOf(c) \in {Str("linkedin"), Str("indeed")}) =>
            /\ \A i \in 1..Len(io[c].scrapes) :
                   io[c].scrapes[i].siteName = <<SiteOf(c)[2]>>
            /\ io[c].ghFetches = <<>>
            /\ io[c].lvFetches = <<>>
            /\ pc[c] = "returned" => SourcesOf(ret[c]) \subseteq {SiteOf(c)[2]}

\* The tracked jobs with the given id.
WithId(jobs, id) == { i \in 1..Len(jobs) : jobs[i].id = id }

\* C26: from an empty store, after any sequence of add, updateStatus,
\* updateFlags and remove no two tracked jobs share an id; add with a URL
\* whose id is already tracked returns the tracked job and leaves the stored
\* list as it was; add with a new id appends exactly one job, with status
\* "new" and the three flags false.
C26_AddKeepsIdsUnique ==
    /\ \A i, k \in 1..Len(store) : store[i].id = store[k].id => i = k
    /\ tout.op = "add" =>
          LET id == jobId(tout.arg.jobUrl)
              held == WithId(tout.before, id)
          IN IF held # {}
             THEN /\ store = tout.before
                  /\ \E i \in held : tout.result = tout.before[i]
             ELSE /\ Len(store) = Len(tout.before) + 1
                  /\ SubSeq(store, 1, Len(tout.before)) = tout.before
                  /\ store[Len(store)] = tout.result
                  /\ tout.result.id = id
                  /\ tout.result.jobUrl = tout.arg.jobUrl
                  /\ tout.result.title = tout.arg.title
                  /\ tout.result.status = "new"
                  /\ ~tout.result.researchDone
                  /\ ~tout.result.resumeTailored
                  /\ ~tout.result.letterDrafted

\* add was given a URL whose id is tracked under another URL, for a job
\* whose status and flags have been changed since; and add appended a job
\* to a non-empty list.
C26_Witness ==
    /\ tout.op = "add"
    /\ \E i \in 1..Len(tout.before) :
          /\ tout.before[i].id = tout.id
          /\ tout.before[i].jobUrl # tout.arg.jobUrl
          /\ tout.before[i].status # "new"
          /\ tout.before[i].researchDone
    /\ Len(store) = 2

\* C27: updateStatus and updateFlags with an id that is not tracked return
\* null, remove with such an id returns false, and the stored list is as it
\* was; with a tracked id updateStatus changes that job's status only,
\* updateFlags that job's named flags only, remove deletes that job only.
\* `jobs status` with a word that is no status changes nothing.
C27_UpdatesTouchOneJob ==
    LET held == WithId(tout.before, tout.id)
        others == (1..Len(tout.before)) \ held
    IN /\ (tout.op \in {"updateStatus", "updateFlags"} /\ held = {}) =>
              tout.result = JobNull /\ store = tout.before
       /\ (tout.op = "remove" /\ held = {}) =>
              tout.result = FALSE /\ store = tout.before
       /\ (tout.op \in {"updateStatus", "updateFlags"} /\ held # {}) =>
              /\ Len(store) = Len(tout.before)
              /\ \A i \in others : store[i] = tout.before[i]
              /\ \A i \in held :
                    /\ DOMAIN store[i] = DOMAIN tout.before[i]
                    /\ tout.result = store[i]
                    /\ \A f \in DOMAIN store[i] :
                          IF tout.op = "updateStatus"
                          THEN store[i][f] = IF f = "status" THEN tout.arg
                                             ELSE tout.before[i][f]
                          ELSE store[i][f] = IF f \in DOMAIN tout.arg THEN tout.arg[f]
                                             ELSE tout.before[i][f]
       /\ (tout.op = "remove" /\ held # {}) =>
              /\ tout.result = TRUE
              /\ Len(store) = Len(tout.before) - 1
              /\ \A i \in others : \E k \in 1..Len(store) : store[k] = tout.before[i]
              /\ \A k \in 1..Len(store) : store[k].id # tout.id
       /\ (tout.op = "jobs status" /\ tout.arg \notin JobStatuses) =>
              store = tout.before

\* Two jobs are tracked and updateStatus changed the status of the first.
C27_Witness ==
    /\ Len(tout.before) = 2
    /\ tout.op = "updateStatus"
    /\ store # tout.before
    /\ tout.before[1].id = tout.id
    /\ tout.before[2].status = "offer"
    /\ tout.arg = "applied"

\* The place of a status in the order new, researched, tailored, applied,
\* interviewing, then offer or rejected.
StatusRank(status) ==
    CASE status = "new" -> 1
      [] status = "researched" -> 2
      [] status = "tailored" -> 3
      [] status = "applied" -> 4
      [] status = "interviewing" -> 5
      [] status \in {"offer", "rejected"} -> 6

\* A job added by this step starts as "new"; a job tracked before and after
\* this step has not moved to an earlier status and has not left offer or
\* rejected.
StatusMovesForward ==
    /\ \A k \in 1..Len(store') :
          WithId(store, store'[k].id) = {} => store'[k].status = "new"
    /\ \A i \in 1..Len(store), k \in 1..Len(store') :
          store[i].id = store'[k].id =>
              /\ StatusRank(store'[k].status) >= StatusRank(store[i].status)
              /\ store[i].status \in {"offer", "rejected"} =>
                     store'[k].status = store[i].status

\* C21 (as claimed): a tracked job starts in status "new" and over any
\* sequence of commands its status only moves forward along new, researched,
\* tailored, applied, interviewing, then offer or rejected: never to an
\* earlier status, and never out of offer or rejected.
C21_StatusOnlyMovesForward == [][StatusMovesForward]_vars

\* C28: the count `search --save` reports as newly saved is the number of
\* jobs by which the stored list grew during the command.
C28_SavedCountIsGrowth ==
    (tout.op = "search --save" /\ tout.result # JobNull) =>
        tout.result.added = Len(store) - Len(tout.before)

\* `search --save` was given three results of which one was tracked before
\* under another URL of its id and two share an id: it reports one.
C28_Witness ==
    /\ tout.op = "search --save"
    /\ Len(tout.arg) = 3
    /\ Len(tout.before) = 1
    /\ tout.before[1].jobUrl = "u3"
    /\ tout.arg[1].jobUrl = "u1"
    /\ tout.result = [added |-> 1]
    /\ Len(store) = 2

\* C30: over any sequence of the commands search --save, pipeline, jobs
\* status, jobs remove, research, tailor, letter and package the three flags
\* of every tracked job are false, and formatTrackedJob lists no material
\* for it.
C30_FlagsStayFalse ==
    \A i \in 1..Len(store) :
        /\ ~store[i].researchDone
        /\ ~store[i].resumeTailored
        /\ ~store[i].letterDrafted
        /\ Materials(store[i]) = <<>>

\* package ran for a tracked job whose status had been moved on, with a
\* second job tracked.
C30_Witness ==
    /\ tout.op = "package"
    /\ tout.exit = 0
    /\ tout.result.status = "tailored"
    /\ Len(store) = 2

\* a is b with some elements left out: the elements of a are elements of b,
\* at increasing positions.
IsSubsequence(a, b) ==
    \E f \in [1..Len(a) -> 1..Len(b)] :
        /\ \A i \in 1..Len(a) : b[f[i]] = a[i]
        /\ \A i, k \in 1..Len(a) : i < k => f[i] < f[k]

\* C29: dedupe only removes, and is idempotent: the list it returns is a
\* subsequence of the list it was given (no job added, moved or changed), and
\* applied to a list it returned it returns that list.
C29_DedupeOnlyRemovesOnce ==
    /\ [](dpc \in {"out", "again"} => IsSubsequence(deduped, merged))
    /\ [][(dpc = "out" /\ dpc' = "again") => deduped' = deduped]_vars

\* dedupe removed one of three jobs, and was then applied to the two it kept.
C29_Witness ==
    /\ dpc = "again"
    /\ Len(merged) = 3
    /\ Len(deduped) = 2
    /\ merged[2] # deduped[2]

\* Whether a proxy setting is given: set, and not to the empty string.
Given(v) == v # Undefined /\ v # Str("")

\* The proxy the priority --proxy, JOB_HUNTER_PROXY, first proxy of the
\* profile names.
ClaimedProxy ==
    IF Given(fin.proxyFlag) THEN fin.proxyFlag
    ELSE IF Given(fin.envProxy) THEN fin.envProxy
    ELSE IF "proxies" \in DOMAIN profile /\ Len(profile.proxies) > 0
         THEN profile.proxies[1]
    ELSE Undefined

\* The proxy a scrape request carries (the proxies option of scrapeJobs).
ProxiesOf(request) ==
    IF "proxies" \in DOMAIN request THEN request.proxies ELSE Undefined

\* C22 (as claimed): the proxy of a search is the --proxy flag, else
\* JOB_HUNTER_PROXY, else the first proxy of the profile, and that proxy is
\* the one the scrape request of the search carries.
C22_ProxyChosenAndApplied ==
    \A c \in Calls :
        Missed(c) =>
            /\ Prop(req[c].opts, "proxy") = ClaimedProxy
            /\ \A i \in 1..Len(io[c].scrapes) :
                   ProxiesOf(io[c].scrapes[i]) = ClaimedProxy

\* The jobs of a list that are the first of the list with their key, in the
\* order of the list.
FirstOccurrences(jobs) ==
    LET firsts == { i \in 1..Len(jobs) : FirstWithKey(jobs, i) }
    IN [n \in 1..Cardinality(firsts) |->
           jobs[CHOOSE i \in firsts : Cardinality({ k \in firsts : k <= i }) = n]]

\* The list of the claimed order: what the scraper gave, then the matching
\* postings of each Greenhouse board in the order of the boards, then those
\* of each Lever site, each in the order of its answer.
InSourceOrder(c) ==
    js[c].jobs
    \o GhExpected(req[c].query, gh[c].ids[1], world.gh[1])
    \o GhExpected(req[c].query, gh[c].ids[2], world.gh[2])
    \o LvExpected(req[c].query, lv[c].ids[1], world.lv[1])

\* C23: the list search returns is the jobs of the aggregated boards, then
\* the Greenhouse jobs, then the Lever jobs, each in the order its adapter
\* produced them, with the later duplicates removed, in whatever order the
\* adapters settled.
C23_OrderIndependentOfCompletion ==
    (pc["c1"] = "returned" /\ Missed("c1")) =>
        ret["c1"] = FirstOccurrences(InSourceOrder("c1"))

\* The Lever adapter settled first and the scraper last, both gave a job of
\* one key, and the returned list holds the scraper's copy, at its head.
C23_Witness ==
    /\ pc["c1"] = "returned"
    /\ io["c1"].settled = <<"lever", "greenhouse", "jobspy">>
    /\ js["c1"].jobs # <<>>
    /\ \E i \in 1..Len(lv["c1"].jobs) :
          DedupKey(lv["c1"].jobs[i].jobUrl) = DedupKey(js["c1"].jobs[1].jobUrl)
    /\ \E i \in 1..Len(gh["c1"].jobs) :
          DedupKey(gh["c1"].jobs[i].jobUrl) = DedupKey(js["c1"].jobs[1].jobUrl)
    /\ ret["c1"][1] = js["c1"].jobs[1]
    /\ \A i \in 1..Len(ret["c1"]) :
          ret["c1"][i].source = "lever" =>
              DedupKey(ret["c1"][i].jobUrl) # DedupKey(js["c1"].jobs[1].jobUrl)
    /\ \E i \in 1..Len(ret["c1"]) : ret["c1"][i].source = "lever"

\* C24 (as claimed): when every adapter call a search started settles, the
\* search returns to its caller; once the adapters are started the search
\* ends in no other way than by returning.
C24_SettledSearchReturns ==
    /\ (pc["c1"] = "fanout") ~> (pc["c1"] = "returned")
    /\ [][pc["c1"] = "fanout" => pc'["c1"] \in {"fanout", "returned"}]_vars

\* C25 (as claimed): a search in which every source failed returns the empty
\* list and stores it; a search of the same key that starts while the stored
\* empty list is at most 30 minutes old hits, returns the empty list and
\* contacts no source.
C25_EmptyResultIsCachedAndServed ==
    /\ [](\A c \in Calls :
             (AllSourcesUnreachable(c) /\ pc[c] # "fanout") =>
                 /\ pc[c] = "returned"
                 /\ ret[c] = <<>>
                 /\ KeyOf(c) \in DOMAIN cache
                 /\ cache[KeyOf(c)].value = <<>>)
    /\ [][\A c \in Calls :
             LET k == CacheKey(req'[c].query, req'[c].params)
             IN (/\ pc[c] = "idle"
                 /\ pc'[c] \in {"fanout", "returned", "rejected"}
                 /\ k \in DOMAIN cache
                 /\ cache[k].value = <<>>
                 /\ now - cache[k].storedAt <= ThirtyMinutes) =>
                    /\ io'[c].hit
                    /\ pc'[c] = "returned"
                    /\ ret'[c] = <<>>
                    /\ io'[c].scrapes = <<>>
                    /\ io'[c].ghFetches = <<>>
                    /\ io'[c].lvFetches = <<>>
      ]_vars

====
